---- MODULE Spec2Model ----
(***************************************************************************)
(* StudentActivityTracker: the aggregation, cross-run merge, build and row *)
(* normalisation code of the repository as a state machine.                *)
(*                                                                         *)
(* Scores are floats in the program.  Here a score is an integer number of *)
(* hundredths (25 is 0.25).  The scores the model draws are multiples of   *)
(* 0.25, which binary floats hold exactly, so sums are exact in the        *)
(* program as well and round(x, 1) is round-half-to-even on the decimal    *)
(* value.                                                                  *)
(*                                                                         *)
(* A profile store is a Python dict from student_id to a profile dict.     *)
(* Profile dicts are objects: objs maps an object reference to the value   *)
(* the object holds now, and a store maps each key to a reference, so that *)
(* two stores can share one profile object as they do in the program.      *)
(***************************************************************************)
EXTENDS Integers, Sequences, FiniteSets, TLC

\* ---------------------------------------------------------------- bounds
MaxEntries == 2
MaxMerges == 2
MaxLinks == 2
MaxRows == 2
MaxTables == 2

SIDs == {"S1", "S2"}
Links == {"L1", "L2"}
Scores == {25, 50}

VARIABLES
  pc,             \* merge driver: "start", "idle" (a store exists), "ready" (new_data loaded)
  objs,           \* heap: profile reference -> profile value
  store,          \* the profile store built so far: student_id -> reference
  new_data,       \* the store handed to merge_student_data as new_data
  old0,           \* value of old_data when the last merge_student_data call began
  new0,           \* value of new_data when the last merge_student_data call began
  new_count,      \* second component returned by the last merge_student_data call
  updated_count,  \* third component returned by the last merge_student_data call
  calls,          \* number of merge_student_data calls made
  repeat          \* the last call was given the same new_data as the call before it

mvars == <<pc, objs, store, new_data, old0, new0, new_count, updated_count, calls, repeat>>

VARIABLES
  df,             \* the DataFrame rows handed to aggregate_by_student
  agg             \* the values aggregate_by_student has returned for df: none, or one

avars == <<df, agg>>

VARIABLES
  bpc,            \* build run: "start", "loop", "step2", "done", "aborted" (uncaught exception)
  links,          \* the list extract_links returned
  results,        \* step1_extract_and_parse: the list results
  raw_file,       \* contents of RAW_OUTPUT: none, or the list written
  final_file      \* contents of FINAL_OUTPUT: none, or the store written

bvars == <<bpc, links, results, raw_file, final_file>>

VARIABLES
  ppc,        \* "start" before the row is parsed, "parsed" after, "off" when unused
  parser,     \* the function that parsed the row
  row_idx,    \* idx, the index of the row in the DataFrame
  cells,      \* the cells of the row
  row_out     \* what the loop body did: Raised, or Returned(the entries appended)

pvars == <<ppc, parser, row_idx, cells, row_out>>

VARIABLES
  fn,         \* the function called: "start" before the call, "off" when unused
  args,       \* its arguments
  ret         \* what it returned

fvars == <<fn, args, ret>>

VARIABLES
  dpc,        \* download_file: "start", "fallback", "done", "recorded"; "off" when unused
  durl,       \* the kind of the url
  service,    \* whether GoogleAuth.get_service() returns a service
  dlog,       \* the requests made, each with its outcome
  dresult,    \* what download_file returned
  drecord     \* the record process_external_link returned for a failed download

dvars == <<dpc, durl, service, dlog, dresult, drecord>>

vars == <<mvars, avars, bvars, pvars, fvars, dvars>>

\* ------------------------------------------------------------ data model
NoStore == <<>>

\* a normalized entry as the row parsers emit it (activity fields attached)
Entry(sid, nm, sc, ln) ==
  [stt |-> 1, name |-> nm, student_id |-> sid, student_class |-> "22DHTT02",
   score |-> sc, activity_name |-> ln, activity_link |-> ln]

Entries == {Entry(sid, nm, sc, ln) : sid \in SIDs, nm \in {"An"}, sc \in Scores, ln \in Links}

\* the aggregator alone is also run on entries that spell a student's name differently
AggEntries == {Entry(sid, nm, sc, ln) : sid \in SIDs, nm \in {"An", "AN"}, sc \in Scores, ln \in Links}
AggEntrySeqs == UNION {[1..n -> AggEntries] : n \in 1..MaxEntries}

EntrySeqs == UNION {[1..n -> Entries] : n \in 1..MaxEntries}

RECURSIVE SumScores(_)
SumScores(h) == IF h = <<>> THEN 0 ELSE h[1].score + SumScores(Tail(h))

\* round(x, 1) on hundredths: nearest multiple of 10, a tie goes to the even tenth
Round1(x) ==
  LET q == x \div 10
      r == x % 10
  IN  IF r < 5 THEN q * 10
      ELSE IF r > 5 THEN (q + 1) * 10
      ELSE IF q % 2 = 0 THEN q * 10 ELSE (q + 1) * 10

HistoryRow(e) ==
  [stt |-> e.stt, activity_name |-> e.activity_name, score |-> e.score,
   activity_link |-> e.activity_link]

\* the history with an entry left out when its link is the one before it
RECURSIVE Project_unique(_)
Project_unique(s) ==
  IF s = <<>> THEN <<>>
  ELSE IF Len(s) >= 2 /\ s[1].activity_link = s[2].activity_link THEN Project_unique(Tail(s))
  ELSE <<HistoryRow(s[1])>> \o Project_unique(Tail(s))

RECURSIVE Project(_)
Project(s) == IF s = <<>> THEN <<>> ELSE <<HistoryRow(s[1])>> \o Project(Tail(s))

\* aggregate_by_student without line 50 (the total is left unrounded)
aggregate_by_student_unrounded(rows) ==
  LET ids == {rows[i].student_id : i \in DOMAIN rows}
      group(sid) == SelectSeq(rows, LAMBDA e : e.student_id = sid)
  IN  [sid \in ids |->
        [info |-> [name |-> group(sid)[1].name,
                   student_class |-> group(sid)[1].student_class],
         stats |-> [total_score |-> SumScores(group(sid)),
                    activity_count |-> Len(group(sid))],
         history |-> Project(group(sid))]]

\* aggregate_by_student: rows is the sequence of DataFrame rows.  groupby
\* collects the rows of each student_id in DataFrame order; name and class
\* are the group's first, the score is summed and counted, the sum rounded.
aggregate_by_student(rows) ==
  LET ids == {rows[i].student_id : i \in DOMAIN rows}
      group(sid) == SelectSeq(rows, LAMBDA e : e.student_id = sid)
  IN  [sid \in ids |->
        [info |-> [name |-> group(sid)[1].name,
                   student_class |-> group(sid)[1].student_class],
         stats |-> [total_score |-> Round1(SumScores(group(sid))),
                    activity_count |-> Len(group(sid))],
         history |-> Project(group(sid))]]

\* the value of a store: each key with the value of the object it refers to
Deref(st, heap) == [sid \in DOMAIN st |-> heap[st[sid]]]

\* allocate the profiles of an aggregated store as fresh objects <<k, sid>>
Alloc(k, profiles) == [r \in {<<k, sid>> : sid \in DOMAIN profiles} |-> profiles[r[2]]]
RefsOf(k, profiles) == [sid \in DOMAIN profiles |-> <<k, sid>>]

LinksOf(h) == {h[i].activity_link : i \in DOMAIN h}

\* merge_student_data, the body of the else branch for one student present in merged
MergeExisting(existing, student) ==
  LET existing_links == LinksOf(existing.history)
      appended == SelectSeq(student.history,
                            LAMBDA a : a.activity_link \notin existing_links)
      hist == existing.history \o appended
  IN  [profile |-> [info |-> existing.info,
                    stats |-> [total_score |-> SumScores(hist),
                               activity_count |-> Len(hist)],
                    history |-> hist],
       appended |-> Len(appended)]

RECURSIVE SumOver(_, _)
SumOver(S, f) ==
  IF S = {} THEN 0
  ELSE LET x == CHOOSE y \in S : TRUE IN f[x] + SumOver(S \ {x}, f)

\* merge_student_data with new_count incremented for every student of new_data
merge_student_data_countall(old_data, new_d, heap) ==
  LET both == DOMAIN old_data \cap DOMAIN new_d
      added == DOMAIN new_d \ DOMAIN old_data
      res(sid) == MergeExisting(heap[old_data[sid]], heap[new_d[sid]])
      touched == {old_data[sid] : sid \in both}
      sidOf(r) == CHOOSE sid \in both : old_data[sid] = r
      cnt == [sid \in both |-> res(sid).appended]
  IN  [merged |-> [sid \in DOMAIN old_data \cup added |->
                     IF sid \in DOMAIN old_data THEN old_data[sid] ELSE new_d[sid]],
       new_count |-> Cardinality(DOMAIN new_d),
       updated_count |-> SumOver(both, cnt),
       heap |-> [r \in DOMAIN heap |->
                   IF r \in touched THEN res(sidOf(r)).profile ELSE heap[r]]]

\* merge_student_data(old_data, new_data) on the heap: the merged dict, the two
\* counters, and the heap after the call
merge_student_data(old_data, new_d, heap) ==
  LET both == DOMAIN old_data \cap DOMAIN new_d
      added == DOMAIN new_d \ DOMAIN old_data
      res(sid) == MergeExisting(heap[old_data[sid]], heap[new_d[sid]])
      touched == {old_data[sid] : sid \in both}
      sidOf(r) == CHOOSE sid \in both : old_data[sid] = r
      cnt == [sid \in both |-> res(sid).appended]
  IN  [merged |-> [sid \in DOMAIN old_data \cup added |->
                     IF sid \in DOMAIN old_data THEN old_data[sid] ELSE new_d[sid]],
       new_count |-> Cardinality(added),
       updated_count |-> SumOver(both, cnt),
       heap |-> [r \in DOMAIN heap |->
                   IF r \in touched THEN res(sidOf(r)).profile ELSE heap[r]]]

\* ------------------------------------------------------- merge driver
MInit ==
  /\ pc = "start"
  /\ objs = <<>>
  /\ store = NoStore
  /\ new_data = NoStore
  /\ old0 = NoStore
  /\ new0 = NoStore
  /\ new_count = 0
  /\ updated_count = 0
  /\ calls = 0
  /\ repeat = FALSE

\* the first store: aggregate_by_student over the entries of a build
BuildStore(rows) ==
  /\ pc = "start"
  /\ LET p == aggregate_by_student(rows)
     IN  /\ objs' = Alloc(0, p)
         /\ store' = RefsOf(0, p)
  /\ pc' = "idle"
  /\ UNCHANGED <<new_data, old0, new0, new_count, updated_count, calls, repeat>>
  /\ UNCHANGED <<avars, bvars, pvars, fvars, dvars>>

\* another aggregated store becomes the new_data of the next merge
LoadNew(rows) ==
  /\ pc = "idle"
  /\ calls < MaxMerges
  /\ LET p == aggregate_by_student(rows)
     IN  /\ objs' = objs @@ Alloc(calls + 1, p)
         /\ new_data' = RefsOf(calls + 1, p)
  /\ repeat' = FALSE
  /\ pc' = "ready"
  /\ UNCHANGED <<store, old0, new0, new_count, updated_count, calls>>
  /\ UNCHANGED <<avars, bvars, pvars, fvars, dvars>>

\* the new_data of the previous call is merged in once more
ReuseNew ==
  /\ pc = "idle"
  /\ calls >= 1
  /\ calls < MaxMerges
  /\ repeat' = TRUE
  /\ pc' = "ready"
  /\ UNCHANGED <<objs, store, new_data, old0, new0, new_count, updated_count, calls>>
  /\ UNCHANGED <<avars, bvars, pvars, fvars, dvars>>

\* merged, new_count, updated_count = merge_student_data(store, new_data)
Merge ==
  /\ pc = "ready"
  /\ LET m == merge_student_data(store, new_data, objs)
     IN  /\ store' = m.merged
         /\ objs' = m.heap
         /\ new_count' = m.new_count
         /\ updated_count' = m.updated_count
  /\ old0' = Deref(store, objs)
  /\ new0' = Deref(new_data, objs)
  /\ calls' = calls + 1
  /\ pc' = "idle"
  /\ UNCHANGED <<new_data, repeat>>
  /\ UNCHANGED <<avars, bvars, pvars, fvars, dvars>>

\* the first merge of a run
LoadFirst(rows) == calls = 0 /\ LoadNew(rows)

MIdle ==
  /\ pc = "off"
  /\ objs = <<>>
  /\ store = NoStore
  /\ new_data = NoStore
  /\ old0 = NoStore
  /\ new0 = NoStore
  /\ new_count = 0
  /\ updated_count = 0
  /\ calls = 0
  /\ repeat = FALSE

\* ------------------------------------------------- the aggregator alone
NotCalled == <<>>

AInit ==
  /\ df \in AggEntrySeqs
  /\ agg = NotCalled

AIdle ==
  /\ df = <<>>
  /\ agg = NotCalled

Aggregate ==
  /\ agg = NotCalled
  /\ df # <<>>
  /\ agg' = <<aggregate_by_student(df)>>
  /\ UNCHANGED df
  /\ UNCHANGED <<mvars, bvars, pvars, fvars, dvars>>

\* ------------------------------------------------ text and cell values
\* A Python str is a sequence of one-character strings.
Digit == {"0", "1", "2", "3", "4", "5", "6", "7", "8", "9"}
TAB == "\t"
Whitespace == {" ", TAB}
\* a letter with a diacritic is written as one character with a suffix:
\* "a_acute" is the a with an acute accent, "d_bar" the Vietnamese d with a stroke
UpperOf ==
  [c \in {"a", "b", "c", "d", "e", "g", "h", "i", "k", "l", "m", "n", "o", "r", "s", "t",
          "u", "v", "w", "a_acute", "d_bar"} |->
     CASE c = "a" -> "A" [] c = "b" -> "B" [] c = "c" -> "C" [] c = "d" -> "D"
       [] c = "e" -> "E" [] c = "h" -> "H" [] c = "i" -> "I" [] c = "k" -> "K"
       [] c = "l" -> "L" [] c = "m" -> "M" [] c = "n" -> "N" [] c = "o" -> "O"
       [] c = "s" -> "S" [] c = "t" -> "T" [] c = "u" -> "U" [] c = "w" -> "W"
       [] c = "g" -> "G" [] c = "r" -> "R" [] c = "v" -> "V"
       [] c = "a_acute" -> "A_acute" [] c = "d_bar" -> "D_bar"]
UpperLetter == {UpperOf[c] : c \in DOMAIN UpperOf}

upper(t) == [k \in DOMAIN t |-> IF t[k] \in DOMAIN UpperOf THEN UpperOf[t[k]] ELSE t[k]]
lower(t) ==
  [k \in DOMAIN t |->
     IF \E l \in DOMAIN UpperOf : UpperOf[l] = t[k]
     THEN CHOOSE l \in DOMAIN UpperOf : UpperOf[l] = t[k]
     ELSE t[k]]

RECURSIVE lstrip(_)
lstrip(t) == IF t # <<>> /\ t[1] \in Whitespace THEN lstrip(Tail(t)) ELSE t

RECURSIVE rstrip(_)
rstrip(t) ==
  IF t # <<>> /\ t[Len(t)] \in Whitespace THEN rstrip(SubSeq(t, 1, Len(t) - 1)) ELSE t

strip(t) == rstrip(lstrip(t))

\* t.replace(" ", "")
remove_spaces(t) == SelectSeq(t, LAMBDA c : c # " ")

\* t.replace(".0", ""): every occurrence, scanning from the left
RECURSIVE remove_dot_zero(_)
remove_dot_zero(t) ==
  IF Len(t) < 2 THEN t
  ELSE IF t[1] = "." /\ t[2] = "0" THEN remove_dot_zero(SubSeq(t, 3, Len(t)))
  ELSE <<t[1]>> \o remove_dot_zero(Tail(t))

isdigit(t) == t # <<>> /\ \A k \in DOMAIN t : t[k] \in Digit

DigitValue(c) ==
  CASE c = "0" -> 0 [] c = "1" -> 1 [] c = "2" -> 2 [] c = "3" -> 3 [] c = "4" -> 4
    [] c = "5" -> 5 [] c = "6" -> 6 [] c = "7" -> 7 [] c = "8" -> 8 [] c = "9" -> 9

RECURSIVE int_of(_)
int_of(t) == IF t = <<>> THEN 0 ELSE int_of(SubSeq(t, 1, Len(t) - 1)) * 10 + DigitValue(t[Len(t)])

DigitChar(d) ==
  CASE d = 0 -> "0" [] d = 1 -> "1" [] d = 2 -> "2" [] d = 3 -> "3" [] d = 4 -> "4"
    [] d = 5 -> "5" [] d = 6 -> "6" [] d = 7 -> "7" [] d = 8 -> "8" [] d = 9 -> "9"

\* str(n) for n >= 0
RECURSIVE str_of_int(_)
str_of_int(n) ==
  IF n < 10 THEN <<DigitChar(n)>> ELSE str_of_int(n \div 10) \o <<DigitChar(n % 10)>>

\* the first run of digits in t: re.search(r'(\d+)', t)
RECURSIVE digits_prefix(_)
digits_prefix(t) ==
  IF t # <<>> /\ t[1] \in Digit THEN <<t[1]>> \o digits_prefix(Tail(t)) ELSE <<>>

RECURSIVE first_digits(_)
first_digits(t) ==
  IF t = <<>> THEN <<>>
  ELSE IF t[1] \in Digit THEN digits_prefix(t) ELSE first_digits(Tail(t))

\* a cell value read through pandas or openpyxl
Str(t) == [t |-> "str", s |-> t]
NaN == [t |-> "nan", s |-> <<"n", "a", "n">>]
None == [t |-> "none", s |-> <<"N", "o", "n", "e">>]
IntCell(t) == [t |-> "int", s |-> t]
FloatCell(t) == [t |-> "float", s |-> t \o <<".", "0">>]

\* str(v)
str(v) == v.s

\* bool(v): None, "", 0 and 0.0 are false; NaN is a non-zero float, hence true
truthy(v) ==
  CASE v.t = "none" -> FALSE
    [] v.t = "str" -> v.s # <<>>
    [] v.t = "int" -> v.s # <<"0">>
    [] v.t = "float" -> v.s # <<"0", ".", "0">>
    [] OTHER -> TRUE

\* pd.isna(v)
isna(v) == v.t \in {"nan", "none"}

\* ------------------------------------------------------- the build run
NoFile == <<>>

\* a link_info dict of extract_links
ExternalLink(display_text, url) ==
  [display_text |-> display_text, link_type |-> "external", url |-> url, sheet_name |-> <<>>]
InternalLink(display_text, url, sheet) ==
  [display_text |-> display_text, link_type |-> "internal", url |-> url, sheet_name |-> sheet]

\* wb.sheetnames
sheetnames == {<<"S", "1">>, <<"S", " ", "1">>}

\* a student dict as a row parser emits it for the row numbered j of a table
Student(j, sid, sc) ==
  [stt |-> j, name |-> "An", student_id |-> sid, student_class |-> "22DHTT02", score |-> sc]

\* what a row parser emits for a table: one student per row, in row order
Tables ==
  UNION {{t \in [1..n -> {Student(j, sid, sc) : j \in 1..n, sid \in SIDs, sc \in {25}}] :
            \A j \in 1..n : t[j].stt = j} : n \in 0..MaxRows}

\* download_file: (success, file_ext); the authenticated path reports the
\* extension of the stored file name, which need not be docx or xlsx
DownloadResults ==
  {[success |-> FALSE, file_ext |-> ""]} \cup
  {[success |-> TRUE, file_ext |-> e] : e \in {"docx", "xlsx", "pdf"}}

\* the bytes download_file saved: a table the parser can read, or, for a
\* spreadsheet, a table whose ordinal column has a blank or non-numeric cell
BadOrdinal == [ordinal_ok |-> FALSE, table |-> <<>>]
FileContents == {[ordinal_ok |-> TRUE, table |-> t] : t \in Tables} \cup {BadOrdinal}

Raised == [raised |-> TRUE]
Returned(v) == [raised |-> FALSE, value |-> v]

Stamp(t, name, url) ==
  [j \in DOMAIN t |->
     [stt |-> t[j].stt, name |-> t[j].name, student_id |-> t[j].student_id,
      student_class |-> t[j].student_class, score |-> t[j].score,
      activity_name |-> name, activity_link |-> url]]

\* extract_activity_name(file_path), file_path built from index and display_text
extract_activity_name(index, display_text) == <<"activity", display_text>>

\* parse_xlsx_file: int() of the ordinal cell at line 141 is not guarded
parse_xlsx_file(index, display_text, content, url) ==
  IF ~content.ordinal_ok THEN Raised
  ELSE Returned(Stamp(content.table, extract_activity_name(index, display_text), url))

\* parse_docx_file: Document(file_path) at line 322 raises on a file that is
\* no docx package
parse_docx_file(index, display_text, file_ext, content, url) ==
  IF file_ext # "docx" THEN Raised
  ELSE Returned(Stamp(content.table, extract_activity_name(index, display_text), url))

\* parse_worksheet
parse_worksheet(table, activity_name, activity_link) == Stamp(table, activity_name, activity_link)

ActivityRecord(name, url, students) ==
  [activity_name |-> name, activity_link |-> url, student_count |-> Len(students),
   students |-> students]

process_external_link(display_text, url, index, download, content) ==
  IF ~download.success
  THEN Returned([error |-> "Download failed", url |-> url, students |-> <<>>])
  ELSE LET parsed == IF download.file_ext = "xlsx"
                     THEN parse_xlsx_file(index, display_text, content, url)
                     ELSE parse_docx_file(index, display_text, download.file_ext, content, url)
       IN  IF parsed.raised THEN Raised
           ELSE Returned(ActivityRecord(extract_activity_name(index, display_text), url,
                                        parsed.value))

process_internal_link(sheet_name, display_text, url, index, table) ==
  IF sheet_name \notin sheetnames
  THEN Returned([error |-> "Sheet not found", students |-> <<>>])
  ELSE Returned(ActivityRecord(sheet_name, url, parse_worksheet(table, sheet_name, url)))

\* step2_aggregate, lines 151-154, with the extend at the front of the list
all_students_prepend(raw_data) ==
  LET RECURSIVE Flat(_)
      Flat(rs) == IF rs = <<>> THEN <<>> ELSE Flat(Tail(rs)) \o rs[1].students
  IN  Flat(raw_data)

\* step2_aggregate, lines 151-154: the students of every record, concatenated
all_students(raw_data) ==
  LET RECURSIVE Flat(_)
      Flat(rs) == IF rs = <<>> THEN <<>> ELSE rs[1].students \o Flat(Tail(rs))
  IN  Flat(raw_data)

\* ------------------------------------------------------- the link scan
\* sub in t
contains(t, sub) ==
  \E k \in 0..(Len(t) - Len(sub)) : SubSeq(t, k + 1, k + Len(sub)) = sub

\* the keywords of find_link_column; the third one without its diacritics
LinkKeywords ==
  {<<"l", "i", "n", "k">>, <<"s", "h", "e", "e", "t">>,
   <<"q", "u", "y", "e", "t", " ", "d", "i", "n", "h", " ", "c", "o", "n", "g", " ",
     "n", "h", "a", "n", " ", "n", "r", "l">>}

\* find_link_column: the first column of the header row with a keyword, 0 for None
find_link_column(headers) ==
  LET hits == {col \in DOMAIN headers :
                 /\ headers[col] # <<>>
                 /\ \E kw \in LinkKeywords : contains(lower(headers[col]), kw)}
  IN  IF hits = {} THEN 0 ELSE CHOOSE col \in hits : \A d \in hits : col <= d

NoYear == 9999

\* get_file_year: the first four consecutive digits of the file stem
get_file_year(stem) ==
  LET at == {k \in 1..(Len(stem) - 3) : \A m \in k..(k + 3) : stem[m] \in Digit}
  IN  IF at = {} THEN NoYear
      ELSE int_of(SubSeq(stem, CHOOSE k \in at : \A d \in at : k <= d,
                                (CHOOSE k \in at : \A d \in at : k <= d) + 3))

LastOldYear == 2022

MasterUrl(a, b) == <<"h", "t", "t", "p", ":", a, b>>
MASTER_LINK == (2020 :> MasterUrl("2", "0")) @@ (2021 :> <<>>) @@ (2022 :> MasterUrl("2", "2"))

\* \$?[A-Z]+\$?\d+ matches loc from position p
CellRefAt(loc, p) ==
  LET p1 == IF p <= Len(loc) /\ loc[p] = "$" THEN p + 1 ELSE p
      ends == {q \in p1..Len(loc) : \A m \in p1..q : loc[m] \in UpperLetter \ {"A_acute", "D_bar"}}
      p2 == IF ends = {} THEN p1 ELSE (CHOOSE q \in ends : \A d \in ends : d <= q) + 1
      p3 == IF p2 <= Len(loc) /\ loc[p2] = "$" THEN p2 + 1 ELSE p2
  IN  ends # {} /\ p3 <= Len(loc) /\ loc[p3] \in Digit

\* parse_sheet_location: the sheet name, <<>> for None
parse_sheet_location(location) ==
  LET quoted == {k \in 3..(Len(location) - 1) : location[k] = "'" /\ location[k + 1] = "!"}
      plain == {k \in 2..Len(location) : location[k] = "!" /\ CellRefAt(location, k + 1)}
  IN  IF location = <<>> THEN <<>>
      ELSE IF location[1] = "'" /\ quoted # {}
      THEN SubSeq(location, 2, (CHOOSE k \in quoted : \A d \in quoted : k <= d) - 1)
      ELSE IF plain # {}
      THEN strip(SubSeq(location, 1, (CHOOSE k \in plain : \A d \in plain : k <= d) - 1))
      ELSE <<>>

RaisedWith(e) == [raised |-> TRUE, error |-> e]

\* limit: <<>> for None, <<n>> for the integer n
NoLimit == <<>>

\* `limit and len(links) >= limit` with > for >=
LimitReached_late(limit, found) == limit # NoLimit /\ limit[1] # 0 /\ Len(found) > limit[1]

\* limit and len(links) >= limit
LimitReached(limit, found) == limit # NoLimit /\ limit[1] # 0 /\ Len(found) >= limit[1]

startswith_http(t) == Len(t) >= 4 /\ SubSeq(t, 1, 4) = <<"h", "t", "t", "p">>

\* sheet_name and sheet_name in wb.sheetnames, without the membership test
SheetExists_unchecked(sheet_name, wb) == sheet_name # <<>>

\* sheet_name and sheet_name in wb.sheetnames
SheetExists(sheet_name, wb) == sheet_name # <<>> /\ sheet_name \in wb.sheetnames

\* extract_links; wb.rows are the cells of the link column below the header
extract_links(wb, limit) ==
  LET file_year == get_file_year(wb.stem)
      is_old_file == file_year <= LastOldYear
      RECURSIVE Loop(_, _)
      Loop(row, found) ==
        IF row > Len(wb.rows) \/ LimitReached(limit, found) THEN Returned(found)
        ELSE LET cell == wb.rows[row]
                 display_text == cell.value
                 location == cell.location
                 sheet_name == parse_sheet_location(location)
             IN  IF ~cell.hyperlink THEN Loop(row + 1, found)
                 ELSE IF is_old_file /\ location # <<>>
                 THEN IF SheetExists(sheet_name, wb)
                      THEN IF file_year = 2021
                           THEN Loop(row + 1, Append(found,
                                  InternalLink(display_text, display_text, sheet_name)))
                           ELSE IF file_year \notin DOMAIN MASTER_LINK
                           THEN RaisedWith("KeyError")
                           ELSE Loop(row + 1, Append(found,
                                  InternalLink(display_text, MASTER_LINK[file_year], sheet_name)))
                      ELSE Loop(row + 1, found)
                 ELSE IF ~is_old_file
                 THEN IF cell.target # <<>>
                      THEN Loop(row + 1, Append(found, ExternalLink(display_text, cell.target)))
                      ELSE IF location # <<>> /\ SheetExists(sheet_name, wb)
                      THEN Loop(row + 1, Append(found,
                             InternalLink(display_text,
                                          IF startswith_http(display_text) THEN display_text
                                          ELSE location,
                                          sheet_name)))
                      ELSE Loop(row + 1, found)
                 ELSE Loop(row + 1, found)
  IN  IF find_link_column(wb.headers) = 0 THEN RaisedWith("ValueError")
      ELSE Loop(1, <<>>)

\* the workbooks of the model
URL1 == <<"h", "t", "t", "p", ":", "1">>
URL2 == <<"h", "t", "t", "p", ":", "2">>
Title == <<"Q", "1">>
Sheet1 == <<"S", "1">>
SheetQ == <<"S", " ", "1">>

Cell(value, target, location) ==
  [hyperlink |-> TRUE, value |-> value, target |-> target, location |-> location]

LinkCells ==
  {[hyperlink |-> FALSE, value |-> Title, target |-> <<>>, location |-> <<>>],
   Cell(Title, URL1, <<>>),
   Cell(<<>>, URL2, <<>>),
   Cell(Title, URL1, Sheet1 \o <<"!", "A", "1">>),
   Cell(Title, <<>>, <<"'">> \o SheetQ \o <<"'", "!", "A", "1">>),
   Cell(URL1, <<>>, Sheet1 \o <<"!", "$", "A", "$", "1">>),
   Cell(Title, <<>>, <<"S", "2", "!", "A", "1">>),
   Cell(Title, <<>>, Sheet1)}

Stems ==
  {<<"2", "0", "1", "9", "-", "2", "0", "2", "0">>, <<"2", "0", "2", "0">>,
   <<"n", "r", "l", "2", "0", "2", "1">>, <<"2", "0", "2", "2", "-", "2", "0", "2", "3">>,
   <<"2", "0", "2", "3", "-", "2", "0", "2", "4">>, <<"d", "a", "t", "a">>}

HeaderRows ==
  {<<<<"S", "T", "T">>, <<"L", "i", "n", "k">>>>,
   <<<<"S", "H", "E", "E", "T">>, <<"L", "i", "n", "k">>>>,
   <<<<"S", "T", "T">>, <<>>>>}

Workbook(stem, headers, rows) ==
  [stem |-> stem, headers |-> headers, rows |-> rows, sheetnames |-> sheetnames]

Workbooks ==
  {Workbook(st, h, rs) :
     st \in Stems, h \in HeaderRows, rs \in UNION {[1..n -> LinkCells] : n \in 0..MaxLinks}}

\* the workbooks a build run is started on
BuildWorkbooks ==
  LET BuildCells == {Cell(Title, URL1, <<>>),
                     Cell(<<>>, URL2, <<>>),
                     Cell(Title, <<>>, <<"'">> \o SheetQ \o <<"'", "!", "A", "1">>)}
  IN  {Workbook(<<"2", "0", "2", "3", "-", "2", "0", "2", "4">>, h, rs) :
         h \in HeaderRows, rs \in UNION {[1..n -> BuildCells] : n \in 0..MaxLinks}}

\* the final file an earlier run saved
PreviousFinal == aggregate_by_student(Stamp(<<Student(1, "S1", 25)>>, Title, URL1))

BInit ==
  /\ bpc = "start"
  /\ links = <<>>
  /\ results = <<>>
  /\ raw_file = NoFile
  /\ final_file \in {NoFile, <<PreviousFinal>>}

BIdle ==
  /\ bpc = "off"
  /\ links = <<>>
  /\ results = <<>>
  /\ raw_file = NoFile
  /\ final_file = NoFile

\* step1_extract_and_parse up to the loop: extract_links returns the links or raises
Scan(wb, limit) ==
  /\ bpc = "start"
  /\ LET out == extract_links(wb, limit)
     IN  IF out.raised
         THEN bpc' = "failed" /\ UNCHANGED links
         ELSE links' = out.value /\ bpc' = "loop"
  /\ UNCHANGED <<results, raw_file, final_file>>
  /\ UNCHANGED <<mvars, avars, pvars, fvars, dvars>>

\* one iteration of the loop of step1_extract_and_parse, whose exception ends the run
Processed(out) ==
  IF out.raised
  THEN bpc' = "aborted" /\ UNCHANGED results
  ELSE results' = Append(results, out.value) /\ UNCHANGED bpc

ProcessExternal(download, content) ==
  /\ bpc = "loop"
  /\ Len(results) < Len(links)
  /\ LET idx == Len(results) + 1
         link_info == links[idx]
     IN  /\ link_info.link_type = "external"
         /\ (download.file_ext = "xlsx" \/ content.ordinal_ok)
         /\ Processed(process_external_link(link_info.display_text, link_info.url, idx,
                                            download, content))
  /\ UNCHANGED <<links, raw_file, final_file>>
  /\ UNCHANGED <<mvars, avars, pvars, fvars, dvars>>

ProcessInternal(table) ==
  /\ bpc = "loop"
  /\ Len(results) < Len(links)
  /\ LET idx == Len(results) + 1
         link_info == links[idx]
     IN  /\ link_info.link_type # "external"
         /\ Processed(process_internal_link(link_info.sheet_name, link_info.display_text,
                                            link_info.url, idx, table))
  /\ UNCHANGED <<links, raw_file, final_file>>
  /\ UNCHANGED <<mvars, avars, pvars, fvars, dvars>>

\* step1_extract_and_parse after the loop: the raw snapshot is written
SaveRaw ==
  /\ bpc = "loop"
  /\ Len(results) = Len(links)
  /\ raw_file' = <<results>>
  /\ bpc' = "step2"
  /\ UNCHANGED <<links, results, final_file>>
  /\ UNCHANGED <<mvars, avars, pvars, fvars, dvars>>

\* step2_aggregate run on the results so far, before the raw snapshot is saved
Step2_before_raw ==
  /\ bpc = "loop"
  /\ LET rows == all_students(results)
     IN  IF rows = <<>> THEN UNCHANGED final_file
         ELSE final_file' = <<aggregate_by_student(rows)>>
  /\ bpc' = "done"
  /\ UNCHANGED <<links, results, raw_file>>
  /\ UNCHANGED <<mvars, avars, pvars, fvars, dvars>>

\* step2_aggregate: nothing is written when no record has a student
Step2 ==
  /\ bpc = "step2"
  /\ LET rows == all_students(results)
     IN  IF rows = <<>> THEN UNCHANGED final_file
         ELSE final_file' = <<aggregate_by_student(rows)>>
  /\ bpc' = "done"
  /\ UNCHANGED <<links, results, raw_file>>
  /\ UNCHANGED <<mvars, avars, pvars, fvars, dvars>>

\* ------------------------------------------------------ the row parsers
UNKNOWN_NAME == <<"U", "N", "K", "N", "O", "W", "N", "_", "N", "A", "M", "E">>
UNKNOWN_ID == <<"U", "N", "K", "N", "O", "W", "N", "_", "I", "D">>
UNKNOWN_ID_ == UNKNOWN_ID \o <<"_">>
UNKNOWN_CLASS == <<"U", "N", "K", "N", "O", "W", "N", "_", "C", "L", "A", "S", "S">>

\* is_student_id (the same in parser.py and sheet_parser.py)
is_student_id(value) ==
  LET clean_val == remove_spaces(strip(value))
  IN  isdigit(clean_val) /\ Len(clean_val) >= 8

\* is_class_code without the letters of the pattern: ^\d{2}.+$
is_class_code_no_letter(value) ==
  LET clean_val == upper(remove_spaces(strip(value)))
  IN  Len(clean_val) >= 3 /\ clean_val[1] \in Digit /\ clean_val[2] \in Digit

\* is_class_code (the same in both): ^\d{2}[A-Z...]+\d*$ on the cleaned value
is_class_code(value) ==
  LET clean_val == upper(remove_spaces(strip(value)))
      n == Len(clean_val)
  IN  /\ n >= 3
      /\ clean_val[1] \in Digit
      /\ clean_val[2] \in Digit
      /\ \E k \in 3..n :
           /\ \A m \in 3..k : clean_val[m] \in UpperLetter
           /\ \A m \in (k + 1)..n : clean_val[m] \in Digit

\* the cases of smart_swap_id_class without the promotion of a lone identifier
swap_cases_no_promotion(rid, rcls) ==
  IF is_class_code(rid) /\ is_student_id(rcls) THEN <<rcls, rid>>
  ELSE IF is_class_code(rid) /\ rcls = <<>> THEN <<<<>>, rid>>
  ELSE <<rid, rcls>>

\* the four cases of smart_swap_id_class on the trimmed texts
swap_cases(rid, rcls) ==
  IF is_class_code(rid) /\ is_student_id(rcls) THEN <<rcls, rid>>
  ELSE IF rid = <<>> /\ is_student_id(rcls) THEN <<rcls, <<>>>>
  ELSE IF is_class_code(rid) /\ rcls = <<>> THEN <<<<>>, rid>>
  ELSE <<rid, rcls>>

\* parser.py smart_swap_id_class: both arguments are cell texts
parser_smart_swap_id_class(raw_id, raw_class) == swap_cases(strip(raw_id), strip(raw_class))

\* sheet_parser.py smart_swap_id_class: the arguments are cell values
sheet_smart_swap_id_class(raw_id, raw_class) ==
  swap_cases(IF truthy(raw_id) THEN strip(str(raw_id)) ELSE <<>>,
             IF truthy(raw_class) THEN strip(str(raw_class)) ELSE <<>>)

\* parser.py clean_student_id
parser_clean_student_id(raw_id) ==
  IF raw_id = <<>> THEN <<>> ELSE remove_spaces(upper(strip(raw_id)))

\* sheet_parser.py clean_student_id, applied to the text smart_swap_id_class returned
sheet_clean_student_id(raw_id) == remove_dot_zero(remove_spaces(upper(strip(raw_id))))

\* parser.py parse_stt
parse_stt(stt_text) ==
  IF stt_text = <<>> THEN 0
  ELSE LET m == first_digits(strip(stt_text))
       IN  IF m # <<>> THEN int_of(m) ELSE 0

\* re.search(r'(\d+\.?\d*)', t) as hundredths: the first run of digits, and the
\* digits after a period that follows it; 0 when t has no digit
RECURSIVE score_match(_)
score_match(t) ==
  IF t = <<>> THEN 0
  ELSE IF t[1] \notin Digit THEN score_match(Tail(t))
  ELSE LET whole == digits_prefix(t)
           rest == SubSeq(t, Len(whole) + 1, Len(t))
           frac == IF rest # <<>> /\ rest[1] = "." THEN digits_prefix(Tail(rest)) ELSE <<>>
           tenths == IF Len(frac) >= 1 THEN DigitValue(frac[1]) ELSE 0
           cents == IF Len(frac) >= 2 THEN DigitValue(frac[2]) ELSE 0
       IN  int_of(whole) * 100 + tenths * 10 + cents

comma_to_period(t) == [k \in DOMAIN t |-> IF t[k] = "," THEN "." ELSE t[k]]

\* parser.py parse_score
parser_parse_score(score_text) ==
  IF score_text = <<>> THEN 0 ELSE score_match(comma_to_period(strip(score_text)))

ScoreCeiling == 1000 * 100

\* sheet_parser.py parse_score
sheet_parse_score(score_val) ==
  IF isna(score_val) THEN 0
  ELSE IF score_val.t = "date" THEN 0
  ELSE LET score == score_match(comma_to_period(strip(str(score_val))))
       IN  IF score < ScoreCeiling THEN score ELSE 0

\* int(v) of Python: the value, or a ValueError/TypeError
IntRaises(v) ==
  CASE v.t = "str" -> ~isdigit(strip(v.s))
    [] v.t = "int" -> FALSE
    [] v.t = "float" -> FALSE
    [] OTHER -> TRUE

IntValue(v) ==
  CASE v.t = "str" -> int_of(strip(v.s))
    [] v.t = "int" -> int_of(v.s)
    [] OTHER -> int_of(SubSeq(v.s, 1, Len(v.s) - 2))

StudentEntry(stt, name, student_id, student_class, score) ==
  [stt |-> stt, name |-> name, student_id |-> student_id,
   student_class |-> student_class, score |-> score]

\* parse_student_table, the body of its loop for one table row; the cells are texts
parse_student_table_row(row) ==
  LET stt == parse_stt(strip(row.stt.s))
      name == strip(row.name.s)
      swapped == parser_smart_swap_id_class(row.student_id.s, row.student_class.s)
      student_id == parser_clean_student_id(swapped[1])
      student_class == strip(swapped[2])
  IN  IF student_id = <<>> /\ name = <<>> THEN Returned(<<>>)
      ELSE Returned(<<StudentEntry(
             stt,
             IF name = <<>> THEN UNKNOWN_NAME ELSE name,
             IF student_id = <<>>
             THEN (IF stt > 0 THEN UNKNOWN_ID_ \o str_of_int(stt) ELSE UNKNOWN_ID)
             ELSE student_id,
             IF student_class = <<>> THEN UNKNOWN_CLASS ELSE student_class,
             parser_parse_score(row.score.s))>>)

\* parse_xlsx_file, the body of its loop for the DataFrame row with index idx
parse_xlsx_file_row(idx, row) ==
  LET stt_arg == IF truthy(row.stt) THEN row.stt ELSE IntCell(str_of_int(idx + 1))
      stt == IntValue(stt_arg)
      name == strip(str(row.name))
      swapped == sheet_smart_swap_id_class(row.student_id, row.student_class)
      student_id == sheet_clean_student_id(swapped[1])
      student_class == strip(swapped[2])
  IN  IF IntRaises(stt_arg) THEN Raised
      ELSE IF student_id = <<>> /\ name = <<>> THEN Returned(<<>>)
      ELSE Returned(<<StudentEntry(
             stt,
             IF name = <<>> THEN UNKNOWN_NAME ELSE name,
             IF student_id = <<>> THEN UNKNOWN_ID_ \o str_of_int(stt) ELSE student_id,
             IF student_class = <<>> THEN UNKNOWN_CLASS ELSE student_class,
             sheet_parse_score(row.score))>>)

InvalidTexts == {<<>>, <<"n", "a", "n">>, <<"n", "o", "n", "e">>, <<"n", "u", "l", "l">>}

\* parse_worksheet, the body of its loop for the DataFrame row with index idx
parse_worksheet_row(idx, row) ==
  LET stt == IF isna(row.stt) \/ IntRaises(row.stt) THEN idx + 1 ELSE IntValue(row.stt)
      name == IF isna(row.name) THEN <<>> ELSE strip(str(row.name))
      swapped == sheet_smart_swap_id_class(row.student_id, row.student_class)
      student_id == sheet_clean_student_id(swapped[1])
      student_class == strip(swapped[2])
      id_is_invalid == student_id = <<>> \/ student_id \in {upper(t) : t \in InvalidTexts}
      name_is_invalid == name = <<>> \/ lower(name) \in InvalidTexts
  IN  IF id_is_invalid /\ name_is_invalid THEN Returned(<<>>)
      ELSE Returned(<<StudentEntry(
             stt,
             IF name_is_invalid THEN UNKNOWN_NAME ELSE name,
             IF id_is_invalid THEN UNKNOWN_ID_ \o str_of_int(stt) ELSE student_id,
             IF student_class = <<>> \/ lower(student_class) \in InvalidTexts
             THEN UNKNOWN_CLASS ELSE student_class,
             sheet_parse_score(row.score))>>)

\* the cells a table row can hold
Row(stt, name, student_id, student_class, score) ==
  [stt |-> stt, name |-> name, student_id |-> student_id,
   student_class |-> student_class, score |-> score]

IdText == <<"2", "2", "5", "4", "8", "1", "0", "3">>
ClassText == <<"2", "2", "d", "h">>

OrdinalTexts == {<<>>, <<"3">>, <<"n", "o">>, <<"n", "o", "3">>}
NameTexts == {<<>>, <<" ">>, <<"A", "n">>, <<"N", "a", "N">>}
IdTexts ==
  {<<>>, IdText, ClassText, <<" ", "a", "b", " ", "1">>, <<"n", "u", "l", "l">>,
   <<"a", ".", "0", "1">>, <<"a", TAB, "1">>, IdText \o <<".", "0">>}
ClassTexts == {<<>>, ClassText, IdText}
ScoreTexts == {<<"2", "0", ",", "5">>}

DocRows ==
  {Row(Str(a), Str(b), Str(c), Str(d), Str(e)) :
     a \in OrdinalTexts, b \in NameTexts, c \in IdTexts, d \in ClassTexts, e \in ScoreTexts}

\* blanks: the cells pandas or openpyxl hands over for an empty cell
SheetRows(blanks) ==
  {Row(a, b, c, d, e) :
     a \in {Str(t) : t \in OrdinalTexts} \cup {NaN, IntCell(<<"0">>)},
     b \in {Str(t) : t \in NameTexts} \cup blanks,
     c \in {Str(t) : t \in IdTexts} \cup blanks \cup {FloatCell(IdText)},
     d \in {Str(t) : t \in ClassTexts} \cup blanks \cup {IntCell(IdText), FloatCell(IdText)},
     e \in {Str(t) : t \in ScoreTexts} \cup {NaN}}

\* worksheet.cell(...).value is None for an empty cell; a numeric column holds NaN
WorksheetRows == SheetRows({NaN, None})

PIdle ==
  /\ ppc = "off"
  /\ parser = ""
  /\ row_idx = 0
  /\ cells = <<>>
  /\ row_out = <<>>

PInit ==
  /\ ppc = "start"
  /\ parser = ""
  /\ row_idx \in 0..(MaxRows - 1)
  /\ cells \in DocRows \cup WorksheetRows
  /\ row_out = <<>>

ParseStudentTableRow ==
  /\ ppc = "start"
  /\ cells \in DocRows
  /\ parser' = "parse_student_table"
  /\ row_out' = parse_student_table_row(cells)
  /\ ppc' = "parsed"
  /\ UNCHANGED <<row_idx, cells>>
  /\ UNCHANGED <<mvars, avars, bvars, fvars, dvars>>

ParseXlsxRow ==
  /\ ppc = "start"
  /\ cells \in SheetRows({NaN})
  /\ parser' = "parse_xlsx_file"
  /\ row_out' = parse_xlsx_file_row(row_idx, cells)
  /\ ppc' = "parsed"
  /\ UNCHANGED <<row_idx, cells>>
  /\ UNCHANGED <<mvars, avars, bvars, fvars, dvars>>

ParseWorksheetRow ==
  /\ ppc = "start"
  /\ cells \in WorksheetRows
  /\ parser' = "parse_worksheet"
  /\ row_out' = parse_worksheet_row(row_idx, cells)
  /\ ppc' = "parsed"
  /\ UNCHANGED <<row_idx, cells>>
  /\ UNCHANGED <<mvars, avars, bvars, fvars, dvars>>

\* ------------------------------------------------- single function calls
FIdle ==
  /\ fn = "off"
  /\ args = <<>>
  /\ ret = <<>>

\* a call about to be made on one of the inputs
Calling(inputs) ==
  /\ fn = "start"
  /\ args \in inputs
  /\ ret = <<>>

\* called(name, value): the call returns
Called(name, value) ==
  /\ fn = "start"
  /\ fn' = name
  /\ ret' = value
  /\ UNCHANGED args
  /\ UNCHANGED <<mvars, avars, bvars, pvars, dvars>>

\* the texts an identifier or a class cell is called with
SwapTexts ==
  {<<>>, <<" ">>, IdText, <<" ">> \o IdText, <<"2", "2", "5", "4", " ", "8", "1", "0", "3">>,
   ClassText, ClassText \o <<" ">>, <<"a", "b">>,
   <<"2", "2", "D", "H", "T", "T", "0", "2">>,
   <<"2", "2", "5", "4", "8", "1", "0", "3", "1", "5">>}

ParserSwap == Called("parser.smart_swap_id_class", parser_smart_swap_id_class(args[1], args[2]))

SheetSwap ==
  Called("sheet_parser.smart_swap_id_class", sheet_smart_swap_id_class(Str(args[1]), Str(args[2])))

\* the texts of a score cell: a number between a lead and a unit
ScoreCells ==
  LET ScoreNumbers ==
        {<<>>, <<"5">>, <<"2", "0", ",", "5">>, <<"2", "0", ".", "5">>, <<"2", "0", "2", "4">>,
         <<"1", "0", "0", "0">>, <<"0", ",", "2", "5">>, <<"8", "8", "8">>,
         <<"1", ",", "5", ",", "2">>, <<"5", ".">>}
      ScoreLeads == {<<>>, <<" ">>, <<"x", " ">>}
      ScoreUnits == {<<>>, <<" ">>, <<" ", "d", "i", "e", "m">>}
  IN  {Str(a \o b \o c) : a \in ScoreLeads, b \in ScoreNumbers, c \in ScoreUnits} \cup
      {NaN, None, [t |-> "date", s |-> <<"2", "0", "2", "4", "-", "0", "1", "-", "0", "1">>],
       IntCell(<<"5">>), IntCell(<<"2", "0", "2", "4">>), FloatCell(<<"5">>)}

\* parser.py parse_score is called with the text of a docx cell
ParserScore == args.t = "str" /\ Called("parser.parse_score", parser_parse_score(str(args)))

SheetScore == Called("sheet_parser.parse_score", sheet_parse_score(args))

ExtractLinks == Called("extract_links", extract_links(args[1], args[2]))

\* ------------------------------------------------------- download_file
\* detect_google_type; extract_google_id finds an id in all but "unknown"
has_google_id(kind) == kind # "unknown"

\* _build_export_url: the extension of the export
export_ext(file_type) == IF file_type = "spreadsheet" THEN "xlsx" ELSE "docx"

\* what the Drive API calls come to
AuthOutcomes ==
  {[status |-> "ok", file_ext |-> e] : e \in {"docx", "xlsx", "pdf", "bin"}} \cup
  {[status |-> st, file_ext |-> ""] : st \in {"403", "api_error", "system_error"}}

Attempt(path, outcome) == [path |-> path, outcome |-> outcome]
Failure == [success |-> FALSE, file_ext |-> ""]
Success(ext) == [success |-> TRUE, file_ext |-> ext]

\* download_file after _download_public, with a timeout tried again
after_public_retry(outcome) ==
  IF outcome = "ok" THEN "done" ELSE IF outcome = "timeout" THEN "start" ELSE "fallback"

\* download_file after _download_public: return on success, else fall back
after_public(outcome) == IF outcome = "ok" THEN "done" ELSE "fallback"

\* _download_authenticated, lines 151-183: the value returned for an outcome
authenticated_result(outcome) ==
  IF outcome.status = "ok" THEN Success(outcome.file_ext) ELSE Failure

DIdle ==
  /\ dpc = "off"
  /\ durl = ""
  /\ service = FALSE
  /\ dlog = <<>>
  /\ dresult = <<>>
  /\ drecord = <<>>

DInit ==
  /\ dpc = "start"
  /\ durl \in {"document", "spreadsheet", "file", "unknown"}
  /\ service \in BOOLEAN
  /\ dlog = <<>>
  /\ dresult = <<>>
  /\ drecord = <<>>

\* _download_public
DownloadPublic(outcome) ==
  /\ dpc = "start"
  /\ IF ~has_google_id(durl)
     THEN /\ outcome = "http_error"
          /\ dpc' = "fallback"
          /\ UNCHANGED <<dlog, dresult>>
     ELSE /\ dlog' = Append(dlog, Attempt("public", outcome))
          /\ dpc' = after_public(outcome)
          /\ dresult' = IF outcome = "ok" THEN Success(export_ext(durl)) ELSE dresult
  /\ UNCHANGED <<durl, service, drecord>>
  /\ UNCHANGED <<mvars, avars, bvars, pvars, fvars>>

\* _download_authenticated
DownloadAuthenticated(outcome) ==
  /\ dpc = "fallback"
  /\ IF ~has_google_id(durl) \/ ~service
     THEN /\ outcome.status = "api_error"
          /\ dresult' = Failure
          /\ UNCHANGED dlog
     ELSE /\ dlog' = Append(dlog, Attempt("authenticated", outcome))
          /\ dresult' = authenticated_result(outcome)
  /\ dpc' = "done"
  /\ UNCHANGED <<durl, service, drecord>>
  /\ UNCHANGED <<mvars, avars, bvars, pvars, fvars>>

\* process_external_link, lines 37-41: the record of a failed download
RecordFailure ==
  /\ dpc = "done"
  /\ ~dresult.success
  /\ drecord' = <<process_external_link(Title, URL1, 1, dresult, BadOrdinal).value>>
  /\ dpc' = "recorded"
  /\ UNCHANGED <<durl, service, dlog, dresult>>
  /\ UNCHANGED <<mvars, avars, bvars, pvars, fvars>>

\* ------------------------------------------------------------ the search
ResultCap == 10

\* results[:10] without the cap
Uncapped(results_) == results_

\* results[:10]
Capped(results_) == SubSeq(results_, 1, IF Len(results_) < ResultCap THEN Len(results_) ELSE ResultCap)

\* NFKD decomposition without the combining marks, then the two replacements
remove_vietnamese_diacritics(text) ==
  LET BaseChar(c) ==
        CASE c = "a_acute" -> "a" [] c = "A_acute" -> "A" [] c = "d_bar" -> "d" [] c = "D_bar" -> "D"
          [] OTHER -> c
  IN  lower([k \in DOMAIN text |-> BaseChar(text[k])])

has_digit(text) == \E k \in DOMAIN text : text[k] \in Digit

\* an item of data.items()
Item(mssv, name) == [mssv |-> mssv, student_data |-> [info |-> [name |-> name]]]

\* search_by_mssv returning at the first partial match
search_by_mssv_first_only(query, data) ==
  LET query_upper == upper(strip(query))
      exact == {i \in DOMAIN data : data[i].mssv = query_upper}
      partial == SelectSeq(data, LAMBDA item : contains(upper(item.mssv), query_upper))
  IN  IF exact # {} THEN <<data[CHOOSE i \in exact : TRUE]>>
      ELSE SubSeq(partial, 1, IF partial = <<>> THEN 0 ELSE 1)

search_by_mssv(query, data) ==
  LET query_upper == upper(strip(query))
      exact == {i \in DOMAIN data : data[i].mssv = query_upper}
  IN  IF exact # {} THEN <<data[CHOOSE i \in exact : TRUE]>>
      ELSE Capped(SelectSeq(data, LAMBDA item : contains(upper(item.mssv), query_upper)))

search_by_name(query, data) ==
  LET query_normalized == remove_vietnamese_diacritics(strip(query))
  IN  Capped(SelectSeq(data, LAMBDA item :
        contains(remove_vietnamese_diacritics(item.student_data.info.name), query_normalized)))

\* search_student with the store load_students returns
search_student(query, data) ==
  IF query = <<>> \/ strip(query) = <<>> THEN <<>>
  ELSE IF has_digit(strip(query)) THEN search_by_mssv(strip(query), data)
  ELSE search_by_name(strip(query), data)

\* the stores of the model: the first n students of a class list, and two small ones
MaxStore == 11

Stores ==
  LET StudentNames ==
        <<<<"A", "n">>, <<"A_acute", "n", "h">>, <<"D_bar", "a", "n">>, <<"B", "i", "n", "h">>>>
      ClassList(n) ==
        [k \in 1..n |-> Item(<<"2", "2", "1", "3">> \o str_of_int(k), StudentNames[(k % 4) + 1])]
  IN
  {ClassList(n) : n \in 0..MaxStore} \cup
  {<<Item(<<"a", "b", "1">>, <<"A", "n">>), Item(<<"A", "B", "1", "2">>, <<"a", "n">>)>>,
   <<Item(<<"A", "B", "1", "2">>, <<"A", "n">>), Item(<<"A", "B", "1">>, <<"B", "i", "n", "h">>)>>}

Queries ==
  {<<>>, <<" ">>, <<"2", "2", "1", "3">>, <<" ", "2", "2", "1", "3", " ">>, <<"2", "2", "1", "3", "1">>,
   <<"2", "2", "1", "3", "1", "0">>, <<"a", "b", "1">>, <<"9">>, <<"1">>, <<"a", "n">>, <<" ", "A", "N">>,
   <<"a_acute", "n">>, <<"d", "a">>, <<"z">>, <<"n">>}

SearchStudent == Called("search_student", search_student(args[1], args[2]))
SearchByMssv == Called("search_by_mssv", search_by_mssv(args[1], args[2]))
SearchByName == Called("search_by_name", search_by_name(args[1], args[2]))

\* --------------------------------------------------- tables of rows
\* parse_student_table: the entries of the rows below the header, in row order
RECURSIVE parse_student_table(_)
parse_student_table(rows) ==
  IF rows = <<>> THEN <<>>
  ELSE parse_student_table_row(rows[1]).value \o parse_student_table(Tail(rows))

\* parse_worksheet, the loop over df.iterrows(): the k-th row has the index k - 1
parse_worksheet_rows(rows) ==
  LET RECURSIVE Loop(_)
      Loop(k) ==
        IF k > Len(rows) THEN <<>>
        ELSE parse_worksheet_row(k - 1, rows[k]).value \o Loop(k + 1)
  IN  Loop(1)

\* the data rows of a table: up to MaxRows rows with or without an ordinal and
\* an identifier
TableRows ==
  LET Rows == {Row(a, Str(b), Str(c), Str(ClassText), Str(<<"2", "0", ",", "5">>)) :
                 a \in {Str(<<>>), Str(<<"3">>), Str(<<"4">>), NaN, IntCell(<<"2">>)},
                 b \in {<<"A", "n">>, <<"B", "i", "n", "h">>},
                 c \in {<<>>, IdText}}
  IN  UNION {[1..n -> Rows] : n \in 1..MaxRows}

\* the cells of a document table are texts
ParseStudentTable ==
  /\ \A k \in DOMAIN args : args[k].stt.t = "str"
  /\ Called("parse_student_table", parse_student_table(args))

ParseWorksheetTable == Called("parse_worksheet", parse_worksheet_rows(args))

\* ------------------------------------------------ tables and columns
\* the keywords of find_student_table, detect_column_indices and detect_columns
Keyword ==
  [stt |-> <<"s", "t", "t">>,
   ho |-> <<"h", "o_dot">>,
   ten |-> <<"t", "e_circ", "n">>,
   mssv |-> <<"m", "s", "s", "v">>,
   ma_sv |-> <<"m", "a_tilde", " ", "s", "v">>,
   ma_sinh_vien |-> <<"m", "a_tilde", " ", "s", "i", "n", "h", " ", "v", "i", "e_circ", "n">>,
   lop |-> <<"l", "o_horn_acute", "p">>,
   truong |-> <<"t", "r", "u_horn", "o_horn_grave", "n", "g">>,
   don_vi |-> <<"d_bar", "o_horn", "n", " ", "v", "i_dot">>,
   nrl |-> <<"n", "r", "l">>,
   diem |-> <<"d_bar", "i", "e_circ_hook", "m">>,
   so_nrl |-> <<"s", "o_circ_acute", " ", "n", "r", "l">>,
   ho_ten |-> <<"h", "o", " ", "t", "e", "n">>,
   hoten |-> <<"h", "o", "t", "e", "n">>]

\* " ".join(texts)
RECURSIVE join(_)
join(texts) ==
  IF texts = <<>> THEN <<>>
  ELSE IF Len(texts) = 1 THEN texts[1]
  ELSE texts[1] \o <<" ">> \o join(Tail(texts))

\* find_student_table: the position in doc.tables of the table returned, 0 for None
find_student_table(tables) ==
  LET header_text(t) == join([k \in DOMAIN t.header |-> strip(lower(t.header[k]))])
      has_name(t) == contains(header_text(t), Keyword.ho) \/ contains(header_text(t), Keyword.ten)
      has_mssv(t) == contains(header_text(t), Keyword.mssv) \/ contains(header_text(t), Keyword.ma_sv)
      has_nrl(t) == contains(header_text(t), Keyword.nrl) \/ contains(header_text(t), Keyword.diem)
      has_stt(t) == contains(header_text(t), Keyword.stt)
      score(t) == (IF has_name(t) THEN 3 ELSE 0) + (IF has_mssv(t) THEN 2 ELSE 0)
                    + (IF has_nrl(t) THEN 2 ELSE 0) + (IF has_stt(t) THEN 1 ELSE 0)
      RECURSIVE Loop(_, _, _)
      Loop(k, best_table, best_score) ==
        IF k > Len(tables) THEN best_table
        ELSE IF tables[k].rows < 2 THEN Loop(k + 1, best_table, best_score)
        ELSE IF /\ has_name(tables[k])
                /\ (has_mssv(tables[k]) \/ has_nrl(tables[k]))
                /\ score(tables[k]) > best_score
             THEN Loop(k + 1, k, score(tables[k]))
             ELSE Loop(k + 1, best_table, best_score)
  IN  Loop(1, 0, 0)

\* detect_column_indices: the index of the last header cell of each role, -1 for none
detect_column_indices(header_row) ==
  LET role(cell) ==
        LET text == strip(lower(cell))
        IN  IF contains(text, Keyword.stt) THEN "stt"
            ELSE IF \/ contains(text, Keyword.mssv) \/ contains(text, Keyword.ma_sv)
                    \/ contains(text, Keyword.ma_sinh_vien) THEN "student_id"
            ELSE IF contains(text, Keyword.ho) /\ contains(text, Keyword.ten) THEN "name"
            ELSE IF contains(text, Keyword.lop) \/ contains(text, Keyword.truong)
                 THEN "student_class"
            ELSE IF \/ contains(text, Keyword.nrl) \/ contains(text, Keyword.diem)
                    \/ contains(text, Keyword.so_nrl) THEN "score"
            ELSE "none"
      hits(r) == {k \in DOMAIN header_row : role(header_row[k]) = r}
  IN  [r \in {"stt", "name", "student_id", "student_class", "score"} |->
         IF hits(r) = {} THEN -1 ELSE (CHOOSE k \in hits(r) : \A j \in hits(r) : j <= k) - 1]

\* detect_columns: the last column label of each role that has one
detect_columns(columns) ==
  LET role(col) ==
        LET col_lower == strip(lower(col))
        IN  IF contains(col_lower, Keyword.stt) THEN "stt"
            ELSE IF \/ contains(col_lower, Keyword.mssv) \/ contains(col_lower, Keyword.ma_sv)
                    \/ contains(col_lower, Keyword.ma_sinh_vien) THEN "student_id"
            ELSE IF \/ (contains(col_lower, Keyword.ho) /\ contains(col_lower, Keyword.ten))
                    \/ contains(col_lower, Keyword.ho_ten)
                    \/ contains(col_lower, Keyword.hoten) THEN "name"
            ELSE IF contains(col_lower, Keyword.lop) \/ contains(col_lower, Keyword.don_vi)
                 THEN "student_class"
            ELSE IF contains(col_lower, Keyword.nrl) \/ contains(col_lower, Keyword.diem)
                 THEN "score"
            ELSE "none"
      hits(r) == {k \in DOMAIN columns : role(columns[k]) = r}
  IN  [r \in {q \in {"stt", "name", "student_id", "student_class", "score"} : hits(q) # {}} |->
         columns[CHOOSE k \in hits(r) : \A j \in hits(r) : j <= k]]

\* the header cells of the model, as the files spell them
HeaderCell ==
  [stt |-> <<"S", "T", "T">>,
   ho_va_ten |-> <<"H", "o_dot", " ", "v", "a_grave", " ", "t", "e_circ", "n">>,
   ten |-> <<"T", "e_circ", "n">>,
   ho_ten |-> <<"H", "o", " ", "t", "e", "n">>,
   mssv |-> <<"M", "S", "S", "V">>,
   ma_sv |-> <<"M", "a_tilde", " ", "S", "V">>,
   ma_sinh_vien |-> <<"M", "a_tilde", " ", "s", "i", "n", "h", " ", "v", "i", "e_circ", "n">>,
   lop |-> <<"L", "o_horn_acute", "p">>,
   truong |-> <<"T", "r", "u_horn", "o_horn_grave", "n", "g">>,
   don_vi |-> <<"D_bar", "o_horn", "n", " ", "v", "i_dot">>,
   so_nrl |-> <<"S", "o_circ_acute", " ", "N", "R", "L">>,
   diem |-> <<" ", "D_bar", "i", "e_circ_hook", "m">>,
   ren_luyen |-> <<"R", "e_grave", "n", " ", "l", "u", "y", "e_circ_dot", "n">>,
   ghi_chu |-> <<"G", "h", "i", " ", "c", "h", "u_acute">>]

\* doc.tables, each table as the number of its rows and the cells of its first
\* row: one table with any two header cells, or up to MaxTables tables with or
\* without a name, an identifier, a score and an ordinal column
Docs ==
  LET H == HeaderCell
      Cells == {H[f] : f \in DOMAIN H}
      FindHeaders == {<<H.ho_va_ten, H.mssv>>, <<H.ho_va_ten, H.ma_sinh_vien>>, <<H.ten, H.diem>>,
                      <<H.stt, H.ho_va_ten, H.so_nrl>>, <<H.mssv, H.diem>>, <<H.ho_va_ten, H.lop>>}
      FindTables == {[rows |-> n, header |-> h] : n \in {1, 2}, h \in FindHeaders}
  IN  {<<[rows |-> 2, header |-> <<a, b>>]>> : a \in Cells, b \in Cells} \cup
      UNION {[1..n -> FindTables] : n \in 0..MaxTables}

FindStudentTable == Called("find_student_table", find_student_table(args))

\* parse_docx_file maps the columns of the first row of the table
DetectColumnIndices ==
  /\ args # <<>>
  /\ Called("detect_column_indices", detect_column_indices(args[1].header))

\* pd.read_excel takes the column labels from the first row
DetectColumns ==
  /\ args # <<>>
  /\ \A j, k \in DOMAIN args[1].header : args[1].header[j] = args[1].header[k] => j = k
  /\ Called("detect_columns", detect_columns(args[1].header))

\* ------------------------------------------------------ specifications
Init == MInit /\ AIdle /\ BIdle /\ PIdle /\ FIdle /\ DIdle

Next ==
  \/ \E rows \in EntrySeqs : BuildStore(rows)
  \/ \E rows \in EntrySeqs : LoadNew(rows)
  \/ ReuseNew
  \/ Merge

\* a store is built, then stores are merged into it
Spec == Init /\ [][Next]_vars

\* a store is built and one store is merged into it
NextOnce ==
  \/ \E rows \in EntrySeqs : BuildStore(rows)
  \/ \E rows \in EntrySeqs : LoadFirst(rows)
  \/ Merge

SpecOnce == Init /\ [][NextOnce]_vars

\* aggregate_by_student is applied to a DataFrame
InitAgg == AInit /\ MIdle /\ BIdle /\ PIdle /\ FIdle /\ DIdle
NextAgg == Aggregate
SpecAgg == InitAgg /\ [][NextAgg]_vars

\* one run of build_data.py
InitBuild == BInit /\ MIdle /\ AIdle /\ PIdle /\ FIdle /\ DIdle

NextBuild ==
  \/ \E wb \in BuildWorkbooks, limit \in {NoLimit, <<1>>} : Scan(wb, limit)
  \/ \E download \in DownloadResults, content \in FileContents :
       ProcessExternal(download, content)
  \/ \E table \in Tables : ProcessInternal(table)
  \/ SaveRaw
  \/ Step2

SpecBuild == InitBuild /\ [][NextBuild]_vars

\* specification of one row through one of the three parsers
InitParse == PInit /\ MIdle /\ AIdle /\ BIdle /\ FIdle /\ DIdle

NextParse ==
  \/ ParseStudentTableRow
  \/ ParseXlsxRow
  \/ ParseWorksheetRow

SpecParse == InitParse /\ [][NextParse]_vars

\* specification of one call of smart_swap_id_class
InitSwap == Calling(SwapTexts \X SwapTexts) /\ MIdle /\ AIdle /\ BIdle /\ PIdle /\ DIdle

NextSwap ==
  \/ ParserSwap
  \/ SheetSwap

SpecSwap == InitSwap /\ [][NextSwap]_vars

\* specification of one call of parse_score
InitScore == Calling(ScoreCells) /\ MIdle /\ AIdle /\ BIdle /\ PIdle /\ DIdle

NextScore ==
  \/ ParserScore
  \/ SheetScore

SpecScore == InitScore /\ [][NextScore]_vars

\* specification of one call of extract_links
InitScan == Calling(Workbooks \X ({NoLimit} \cup {<<n>> : n \in 0..(MaxLinks + 1)})) /\ MIdle /\ AIdle /\ BIdle /\ PIdle /\ DIdle

NextScan == ExtractLinks

SpecScan == InitScan /\ [][NextScan]_vars

\* specification of one call of download_file from process_external_link
InitDownload == DInit /\ MIdle /\ AIdle /\ BIdle /\ PIdle /\ FIdle

NextDownload ==
  \/ \E outcome \in {"ok", "html", "http_error", "timeout"} : DownloadPublic(outcome)
  \/ \E outcome \in AuthOutcomes : DownloadAuthenticated(outcome)
  \/ RecordFailure

SpecDownload == InitDownload /\ [][NextDownload]_vars

\* specification of one search
InitSearch == Calling(Queries \X Stores) /\ MIdle /\ AIdle /\ BIdle /\ PIdle /\ DIdle

NextSearch ==
  \/ SearchStudent
  \/ SearchByMssv
  \/ SearchByName

SpecSearch == InitSearch /\ [][NextSearch]_vars

\* specification of one call of find_student_table or of a column mapper
InitHeader == Calling(Docs) /\ MIdle /\ AIdle /\ BIdle /\ PIdle /\ DIdle

NextHeader ==
  \/ FindStudentTable
  \/ DetectColumnIndices
  \/ DetectColumns

SpecHeader == InitHeader /\ [][NextHeader]_vars

\* specification of one table through parse_student_table or parse_worksheet
InitTable == Calling(TableRows) /\ MIdle /\ AIdle /\ BIdle /\ PIdle /\ DIdle

NextTable ==
  \/ ParseStudentTable
  \/ ParseWorksheetTable

SpecTable == InitTable /\ [][NextTable]_vars

\* ------------------------------------------------ claims on the merger
StoreValue == Deref(store, objs)
AfterMerge == pc = "idle" /\ calls >= 1
InBoth == DOMAIN old0 \cap DOMAIN new0
NoDupLinks(h) == \A i, j \in DOMAIN h : i # j => h[i].activity_link # h[j].activity_link

\* C1: in every store reachable by one aggregate_by_student call followed by
\* any sequence of merge_student_data calls, every profile has
\* stats.total_score = round(sum of its history scores, 1) and
\* stats.activity_count = len(history).
C1_StatsMatchHistory ==
  pc # "start" =>
    \A sid \in DOMAIN store :
      LET p == StoreValue[sid]
      IN  /\ p.stats.total_score = Round1(SumScores(p.history))
          /\ p.stats.activity_count = Len(p.history)

\* C2: merging the same new store a second time leaves, for every student,
\* the history length and stats.total_score as the first merge left them, and
\* the second merge reports updated_count = 0.  (old0 is the value of the
\* first merge's result, taken when the second call began.)
C2_MergeIdempotent ==
  (AfterMerge /\ repeat) =>
    /\ updated_count = 0
    /\ DOMAIN store = DOMAIN old0
    /\ \A sid \in DOMAIN store :
         /\ Len(StoreValue[sid].history) = Len(old0[sid].history)
         /\ StoreValue[sid].stats.total_score = old0[sid].stats.total_score

\* the history C3 describes: an incoming entry is skipped iff its link equals
\* the link of an entry already in the merged history, else it is appended
RECURSIVE SkipIfPresent(_, _)
SkipIfPresent(hist, incoming) ==
  IF incoming = <<>> THEN hist
  ELSE IF incoming[1].activity_link \in LinksOf(hist)
       THEN SkipIfPresent(hist, Tail(incoming))
       ELSE SkipIfPresent(Append(hist, incoming[1]), Tail(incoming))

AppendedCount == [sid \in InBoth |-> Len(StoreValue[sid].history) - Len(old0[sid].history)]

\* C3: for each student in both stores, an incoming entry is skipped iff its
\* activity_link equals that of an entry already in the student's merged
\* history, every other incoming entry is appended, and updated_count is the
\* number of appended entries over all such students.
C3_SkipIffLinkPresent ==
  AfterMerge =>
    /\ \A sid \in InBoth :
         StoreValue[sid].history = SkipIfPresent(old0[sid].history, new0[sid].history)
    /\ updated_count = SumOver(InBoth, AppendedCount)

\* C4: the keys of merged are keys(old) \cup keys(new); every student of new
\* absent from old maps to new's profile unchanged; added_count is the number
\* of such students.
C4_KeysAndAdded ==
  AfterMerge =>
    /\ DOMAIN store = DOMAIN old0 \cup DOMAIN new0
    /\ \A sid \in DOMAIN new0 \ DOMAIN old0 : StoreValue[sid] = new0[sid]
    /\ new_count = Cardinality(DOMAIN new0 \ DOMAIN old0)

C4_Witness ==
  /\ AfterMerge
  /\ DOMAIN new0 \ DOMAIN old0 # {}
  /\ DOMAIN old0 \ DOMAIN new0 # {}
  /\ new_count = 1

\* C5: after a merge, a student present in both stores whose history in old
\* has no two entries with the same activity_link has no two such entries in
\* the merged history.
C5_MergedHistoryDeduplicated ==
  AfterMerge =>
    \A sid \in InBoth :
      NoDupLinks(old0[sid].history) => NoDupLinks(StoreValue[sid].history)

\* ---------------------------------------------- claims on the aggregator
RowsOf(sid) == {i \in DOMAIN df : df[i].student_id = sid}
ScoreAt == [i \in DOMAIN df |-> df[i].score]

\* C6: over a non-empty sequence of entries aggregate_by_student returns
\* exactly one profile per distinct student_id in the entries, whose
\* activity_count is the number of entries with that id and whose total_score
\* is the sum of their scores rounded to one decimal place.
C6_OneProfilePerStudent ==
  agg # NotCalled =>
    /\ DOMAIN agg[1] = {df[i].student_id : i \in DOMAIN df}
    /\ \A sid \in DOMAIN agg[1] :
         /\ agg[1][sid].stats.activity_count = Cardinality(RowsOf(sid))
         /\ agg[1][sid].stats.total_score = Round1(SumOver(RowsOf(sid), ScoreAt))

C6_Witness ==
  /\ agg # NotCalled
  /\ \E sid \in DOMAIN agg[1] :
       /\ agg[1][sid].stats.activity_count = 2
       /\ SumOver(RowsOf(sid), ScoreAt) = 75
       /\ agg[1][sid].stats.total_score = 80

\* ------------------------------------------------ claims on the build run
\* results[i] is the record of links[i]
RecordOf(rec, link_info) ==
  IF "error" \in DOMAIN rec
  THEN /\ rec.students = <<>>
       /\ link_info.link_type = "external" => rec.url = link_info.url
  ELSE /\ rec.activity_link = link_info.url
       /\ rec.student_count = Len(rec.students)
       /\ \A j \in DOMAIN rec.students :
            /\ rec.students[j].stt = j
            /\ rec.students[j].activity_link = link_info.url

\* the places <<i, j>> (record i, row j) of the raw list that hold student sid
PlacesOf(sid) ==
  {p \in (DOMAIN results) \X (1..MaxRows) :
     /\ p[2] \in DOMAIN results[p[1]].students
     /\ results[p[1]].students[p[2]].student_id = sid}

Before(p, q) == p[1] < q[1] \/ (p[1] = q[1] /\ p[2] <= q[2])

\* the position of place p among the places of sid, in processing order
RankOf(p, sid) == Cardinality({q \in PlacesOf(sid) : Before(q, p)})

\* C7: the raw list holds one record per scanned link, in link order, and
\* each profile's history lists the student's entries in the order the links
\* were processed and, within one link, in the row order of the table.
C7_HistoryInEncounterOrder ==
  /\ bpc \in {"loop", "step2", "done", "aborted"} =>
       /\ Len(results) <= Len(links)
       /\ \A i \in DOMAIN results : RecordOf(results[i], links[i])
  /\ bpc \in {"step2", "done"} =>
       /\ Len(results) = Len(links)
       /\ raw_file = <<results>>
  /\ (bpc = "done" /\ all_students(results) # <<>>) =>
       \A sid \in DOMAIN final_file[1] :
         LET h == final_file[1][sid].history
         IN  /\ Len(h) = Cardinality(PlacesOf(sid))
             /\ \A p \in PlacesOf(sid) :
                  h[RankOf(p, sid)] = HistoryRow(results[p[1]].students[p[2]])

C7_Witness ==
  /\ bpc = "done"
  /\ all_students(results) # <<>>
  /\ Len(links) = 2
  /\ links[1].url # links[2].url
  /\ \E sid \in DOMAIN final_file[1] :
       LET h == final_file[1][sid].history
       IN  /\ Len(h) = 3
           /\ h[1].activity_link = links[1].url /\ h[1].stt = 1
           /\ h[2].activity_link = links[1].url /\ h[2].stt = 2
           /\ h[3].activity_link = links[2].url

\* C8: whatever each link's fetch and parse do, step1_extract_and_parse
\* processes every link, records exactly one record per link in the raw
\* snapshot (an error record with no students for a failed link) and never
\* aborts the batch.
C8_FailureIsolation ==
  /\ bpc # "aborted"
  /\ bpc \in {"step2", "done"} =>
       /\ raw_file # NoFile
       /\ Len(raw_file[1]) = Len(links)
       /\ \A i \in DOMAIN links : RecordOf(raw_file[1][i], links[i])

\* C19: the final file is written only after every link has been processed
\* and the raw snapshot has been written; a run that fails or is aborted while
\* the links are processed leaves the final file as it was; a run whose
\* spreadsheet has no link column fails before any raw or final file is written.
C19_CommitOrdering ==
  /\ [](bpc \in {"start", "loop", "aborted", "failed"} =>
          /\ raw_file = NoFile
          /\ final_file \in {NoFile, <<PreviousFinal>>})
  /\ [][final_file' # final_file =>
          /\ bpc = "step2"
          /\ Len(results) = Len(links)
          /\ raw_file = <<results>>]_vars
  /\ [][bpc' \in {"aborted", "failed"} => (final_file' = final_file /\ raw_file' = raw_file)]_vars

C19_Witness ==
  /\ bpc = "aborted"
  /\ Len(links) = 2
  /\ Len(results) = 1
  /\ "error" \notin DOMAIN results[1]
  /\ results[1].student_count = 2
  /\ raw_file = NoFile
  /\ final_file = <<PreviousFinal>>

C19_WitnessNoLinkColumn ==
  /\ bpc = "failed"
  /\ raw_file = NoFile
  /\ final_file = <<PreviousFinal>>

\* ------------------------------------------- claims on the row parsers
RowParsed == ppc = "parsed" /\ row_out # Raised
SheetParser == parser \in {"parse_xlsx_file", "parse_worksheet"}

\* the identifier and the class after the swap heuristic of the parser that ran
Swapped ==
  IF SheetParser
  THEN sheet_smart_swap_id_class(cells.student_id, cells.student_class)
  ELSE parser_smart_swap_id_class(cells.student_id.s, cells.student_class.s)

\* empty: an empty string or, for the spreadsheet parsers, nan/none/null in any case
EmptyText(t) == strip(t) = <<>> \/ (SheetParser /\ lower(strip(t)) \in InvalidTexts)

IdEmpty == EmptyText(Swapped[1])
ClassEmpty == EmptyText(Swapped[2])
NameEmpty == isna(cells.name) \/ EmptyText(str(cells.name))

CanonicalId ==
  IF SheetParser THEN sheet_clean_student_id(Swapped[1]) ELSE parser_clean_student_id(Swapped[1])

\* C9: a row produces no entry exactly when, after the swap heuristic, both its
\* identifier and its name are empty; a row with an empty name and a non-empty
\* identifier produces an entry named UNKNOWN_NAME that keeps the canonical
\* identifier.
C9_EmptinessPolicy ==
  RowParsed =>
    /\ (row_out.value = <<>>) <=> (IdEmpty /\ NameEmpty)
    /\ (NameEmpty /\ ~IdEmpty) =>
         /\ row_out.value # <<>>
         /\ row_out.value[1].name = UNKNOWN_NAME
         /\ row_out.value[1].student_id = CanonicalId

\* C10: an emitted entry whose identifier is missing has student_id "UNKNOWN_ID_"
\* followed by its ordinal (ordinal 0 included), one whose class is missing has
\* student_class "UNKNOWN_CLASS", and no emitted entry has an empty name,
\* student_id or student_class.
C10_SentinelSubstitution ==
  (RowParsed /\ row_out.value # <<>>) =>
    LET e == row_out.value[1]
    IN  /\ IdEmpty => e.student_id = UNKNOWN_ID_ \o str_of_int(e.stt)
        /\ ClassEmpty => e.student_class = UNKNOWN_CLASS
        /\ e.name # <<>>
        /\ e.student_id # <<>>
        /\ e.student_class # <<>>

\* ------------------------------------------ claims on the swap heuristic
SwapCalled == fn \in {"parser.smart_swap_id_class", "sheet_parser.smart_swap_id_class"}

\* the four cases of the heuristic on a pair (rid, rcls), first match wins
SwapRule(rid, rcls, out) ==
  LET c1 == is_class_code(rid) /\ is_student_id(rcls)
      c2 == rid = <<>> /\ is_student_id(rcls)
      c3 == is_class_code(rid) /\ rcls = <<>>
  IN  /\ c1 => out = <<rcls, rid>>
      /\ (~c1 /\ c2) => out = <<rcls, <<>>>>
      /\ (~c1 /\ ~c2 /\ c3) => out = <<<<>>, rid>>
      /\ (~c1 /\ ~c2 /\ ~c3) => out = <<rid, rcls>>

\* C11 as stated: both implementations follow the four cases on the strings
\* they are called with, returning them unchanged in the last case.
C11_SwapOnRawStrings == SwapCalled => SwapRule(args[1], args[2], ret)

\* C11: both implementations follow the four cases on the two strings with
\* leading and trailing whitespace removed; ("22DHTT02", "2254810315") gives
\* ("2254810315", "22DHTT02") and ("", "2254810315") gives ("2254810315", "").
C11_SwapOnTrimmedStrings ==
  SwapCalled =>
    /\ SwapRule(strip(args[1]), strip(args[2]), ret)
    /\ (args = <<<<"2", "2", "D", "H", "T", "T", "0", "2">>,
                 <<"2", "2", "5", "4", "8", "1", "0", "3", "1", "5">>>>) =>
         ret = <<args[2], args[1]>>
    /\ (args = <<<<>>, <<"2", "2", "5", "4", "8", "1", "0", "3", "1", "5">>>>) =>
         ret = <<args[2], <<>>>>

C11_Witness ==
  /\ fn = "sheet_parser.smart_swap_id_class"
  /\ args = <<ClassText \o <<" ">>, <<" ">> \o IdText>>
  /\ ret = <<IdText, ClassText>>

\* -------------------------------------------- claims on score parsing
ScoreCalled == fn \in {"parser.parse_score", "sheet_parser.parse_score"}

\* the first decimal number of the cell text, commas read as periods
FirstNumber == score_match(comma_to_period(strip(str(args))))

\* C12: both parse_score implementations return 0.0 for a missing or empty cell
\* and for a date-typed cell; otherwise the first decimal number of the text with
\* commas read as periods, or 0.0 when that number is 1000 or more; "20,5 diem"
\* gives 20.5, "2024" gives 0.0, and every score is at least 0 and below 1000.
C12_ScoreParsing ==
  ScoreCalled =>
    /\ (isna(args) \/ str(args) = <<>> \/ args.t = "date") => ret = 0
    /\ ~(isna(args) \/ str(args) = <<>> \/ args.t = "date") =>
         ret = (IF FirstNumber >= 1000 * 100 THEN 0 ELSE FirstNumber)
    /\ args = Str(<<"2", "0", ",", "5", " ", "d", "i", "e", "m">>) => ret = 2050
    /\ args = Str(<<"2", "0", "2", "4">>) => ret = 0
    /\ ret >= 0
    /\ ret < 1000 * 100

\* ------------------------------------------------ claims on the link scan
Scanned == fn = "extract_links"
Unlimited == extract_links(args[1], NoLimit)
Min(a, b) == IF a <= b THEN a ELSE b

\* the scan with limit n returns the first min(n, all) references of the unlimited scan
Truncated(n) ==
  IF Unlimited.raised THEN ret.raised
  ELSE /\ ~ret.raised
       /\ ret.value = SubSeq(Unlimited.value, 1, Min(n, Len(Unlimited.value)))

\* C13 as stated: for every limit L >= 0 the scan returns exactly the first
\* min(L, n) of the n references the unlimited scan returns, in row order.
C13_LimitTruncatesFromZero == (Scanned /\ args[2] # NoLimit) => Truncated(args[2][1])

\* C13: for every limit L >= 1 the scan returns exactly the first min(L, n) of
\* the n references the unlimited scan returns, in row order; limit 0 is no
\* limit and returns all n.
C13_LimitTruncates ==
  (Scanned /\ args[2] # NoLimit) =>
    IF args[2][1] = 0 THEN ret = Unlimited ELSE Truncated(args[2][1])

C13_Witness ==
  /\ Scanned
  /\ args[2] = <<1>>
  /\ ~Unlimited.raised
  /\ Len(Unlimited.value) = 2
  /\ Unlimited.value[1] # Unlimited.value[2]
  /\ ret.value = <<Unlimited.value[1]>>

\* what the claim says a hyperlink cell of a new spreadsheet yields
KindOf(cell, wb) ==
  IF cell.target # <<>> THEN "external"
  ELSE IF cell.location # <<>> /\ parse_sheet_location(cell.location) \in wb.sheetnames
  THEN "internal"
  ELSE "skipped"

LinkRows(wb) == SelectSeq(wb.rows, LAMBDA cell : cell.hyperlink /\ KindOf(cell, wb) # "skipped")

\* C14: every reference of a spreadsheet with a year token below the threshold
\* is internal; in a spreadsheet at or above it a hyperlink cell with a target
\* yields an external reference and one with only a location an internal one;
\* every internal reference names a sheet of the workbook, others are skipped.
C14_ClassificationByYear ==
  (Scanned /\ ~ret.raised) =>
    LET wb == args[1]
        found == ret.value
    IN  /\ get_file_year(wb.stem) <= LastOldYear =>
             \A i \in DOMAIN found : found[i].link_type = "internal"
        /\ \A i \in DOMAIN found :
             found[i].link_type = "internal" => found[i].sheet_name \in wb.sheetnames
        /\ (get_file_year(wb.stem) > LastOldYear /\ args[2] = NoLimit) =>
             /\ Len(found) = Len(LinkRows(wb))
             /\ \A i \in DOMAIN found :
                  /\ found[i].link_type = KindOf(LinkRows(wb)[i], wb)
                  /\ found[i].link_type = "external" => found[i].url = LinkRows(wb)[i].target

C14_Witness ==
  /\ Scanned
  /\ ~ret.raised
  /\ get_file_year(args[1].stem) > LastOldYear
  /\ Len(ret.value) = 2
  /\ ret.value[1].link_type = "external"
  /\ ret.value[2].link_type = "internal"

C14_WitnessOld ==
  /\ Scanned
  /\ ~ret.raised
  /\ get_file_year(args[1].stem) = 2021
  /\ Len(args[1].rows) = 2
  /\ Len(ret.value) = 1

\* ------------------------------------------------- claims on the download
AttemptsOn(path) == {i \in DOMAIN dlog : dlog[i].path = path}

\* C15: download_file makes at most one anonymous and at most one authenticated
\* attempt; the authenticated attempt comes only after the anonymous one has
\* failed; a successful anonymous attempt returns at once; no attempt is
\* repeated after a timeout, a permission-denied response or any other error.
C15_FetchFallbackProtocol ==
  /\ Cardinality(AttemptsOn("public")) <= 1
  /\ Cardinality(AttemptsOn("authenticated")) <= 1
  /\ \A i \in AttemptsOn("authenticated") :
       /\ i = 2
       /\ dlog[1].path = "public"
       /\ dlog[1].outcome # "ok"
  /\ (dlog # <<>> /\ dlog[1] = Attempt("public", "ok")) =>
       /\ Len(dlog) = 1
       /\ dpc = "done"
       /\ dresult = Success(export_ext(durl))
  /\ dpc \in {"done", "recorded"} => dresult \in {Failure} \cup {Success(e) : e \in {"docx", "xlsx", "pdf", "bin"}}

C15_Witness ==
  /\ dpc = "done"
  /\ Len(dlog) = 2
  /\ dlog[1] = Attempt("public", "timeout")
  /\ dlog[2].path = "authenticated"
  /\ dlog[2].outcome.status = "403"
  /\ dresult = Failure

\* C16: a permission-denied response on the authenticated path reaches the
\* caller and the raw snapshot as an outcome distinct from a generic fetch
\* failure: the value download_file returns and the error record
\* process_external_link writes differ between the two cases.
C16_AuthorizationFailureDistinct ==
  (dpc \in {"done", "recorded"} /\ dlog # <<>> /\ dlog[Len(dlog)].path = "authenticated"
     /\ dlog[Len(dlog)].outcome.status = "403") =>
    LET generic == authenticated_result([status |-> "api_error", file_ext |-> ""])
    IN  /\ dresult # generic
        /\ dpc = "recorded" =>
             drecord # <<process_external_link(Title, URL1, 1, generic, BadOrdinal).value>>

\* --------------------------------------------------- claims on the search
Query == args[1]
Data == args[2]
IsPrefixOf(r, full) == Len(r) <= Len(full) /\ r = SubSeq(full, 1, Len(r))

\* the items of the store whose id contains q, ignoring case, in store order
IdMatches(q) == SelectSeq(Data, LAMBDA item : contains(upper(item.mssv), upper(q)))

\* the items whose name contains q, ignoring case and diacritics
NameMatches(q) ==
  SelectSeq(Data, LAMBDA item :
    contains(remove_vietnamese_diacritics(item.student_data.info.name),
             remove_vietnamese_diacritics(q)))

\* C17: search_student returns nothing for an empty or whitespace-only query;
\* for a query with a digit the identifier search (the single profile whose key
\* is the uppercased query if there is one, otherwise the ids containing it
\* ignoring case); for a query without a digit the name search; never more than
\* 10 results, and an empty sequence when nothing matches.
C17_SearchDispatch ==
  fn = "search_student" =>
    LET q == strip(Query)
        keyed == SelectSeq(Data, LAMBDA item : item.mssv = upper(q))
        matches == IF has_digit(q) THEN IdMatches(q) ELSE NameMatches(q)
    IN  /\ Len(ret) <= 10
        /\ q = <<>> => ret = <<>>
        /\ (q # <<>> /\ has_digit(q) /\ keyed # <<>>) => ret = keyed
        /\ (q # <<>> /\ ~(has_digit(q) /\ keyed # <<>>)) =>
             ret = SubSeq(matches, 1, IF Len(matches) <= 10 THEN Len(matches) ELSE 10)

C17_Witness ==
  /\ fn = "search_student"
  /\ Len(Data) = 11
  /\ Query = <<" ", "2", "2", "1", "3", " ">>
  /\ Len(ret) = 10

\* C18 as stated: search_by_mssv(q, data) returns every profile whose id
\* contains q as a case-insensitive substring, capped at the first 10 in store
\* order.
C18_EverySubstringMatch ==
  fn = "search_by_mssv" =>
    ret = SubSeq(IdMatches(Query), 1, IF Len(IdMatches(Query)) <= 10 THEN Len(IdMatches(Query)) ELSE 10)

\* C18: search_by_mssv(q, data), with q trimmed, returns the single profile
\* whose key is the uppercased q if there is one, and otherwise every profile
\* whose id contains q as a case-insensitive substring, capped at the first 10
\* in store order.
C18_SubstringMatchUnlessKey ==
  fn = "search_by_mssv" =>
    LET q == strip(Query)
        keyed == SelectSeq(Data, LAMBDA item : item.mssv = upper(q))
    IN  IF keyed # <<>> THEN ret = keyed
        ELSE ret = SubSeq(IdMatches(q), 1, IF Len(IdMatches(q)) <= 10 THEN Len(IdMatches(q)) ELSE 10)

C18_Witness ==
  /\ fn = "search_by_mssv"
  /\ Len(Data) = 11
  /\ Query = <<"2", "2", "1", "3">>
  /\ Len(ret) = 10
  /\ ret[10] = Data[10]

\* ------------------------------------------ claims on the canonical form
remove_whitespace(t) == SelectSeq(t, LAMBDA c : c \notin Whitespace)

strip_trailing_dot_zero(t) ==
  IF Len(t) >= 2 /\ t[Len(t) - 1] = "." /\ t[Len(t)] = "0" THEN SubSeq(t, 1, Len(t) - 2) ELSE t

IsSentinelId(t) == Len(t) >= Len(UNKNOWN_ID) /\ SubSeq(t, 1, Len(UNKNOWN_ID)) = UNKNOWN_ID

\* C20: every student_id a row parser emits that is no sentinel equals the raw
\* identifier trimmed, uppercased, with all internal whitespace removed and
\* with only a trailing ".0" removed; it holds no whitespace character.
C20_IdentifierCanonicalForm ==
  (RowParsed /\ row_out.value # <<>> /\ ~IsSentinelId(row_out.value[1].student_id)) =>
    LET id == row_out.value[1].student_id
    IN  /\ id = strip_trailing_dot_zero(remove_whitespace(upper(strip(Swapped[1]))))
        /\ \A k \in DOMAIN id : id[k] \notin Whitespace

\* ------------------------------------------------ claims on the ordinal
\* the first integer substring of an ordinal cell, 0 when the cell is missing
\* or holds no digit
FirstInteger(cell) ==
  IF isna(cell) THEN 0
  ELSE LET m == first_digits(str(cell)) IN IF m # <<>> THEN int_of(m) ELSE 0

\* C21: parsing a row never raises, whatever the ordinal cell holds, and the
\* ordinal of the emitted entry is the first integer substring of the cell,
\* or 0 if there is none.
C21_OrdinalDefensive ==
  ppc = "parsed" =>
    /\ row_out # Raised
    /\ (row_out.value # <<>> => row_out.value[1].stt = FirstInteger(cells.stt))

\* --------------------------------- claims on tables and column roles
HeaderText(t) == join([k \in DOMAIN t.header |-> strip(lower(t.header[k]))])
HasAny(text, keywords) == \E kw \in keywords : contains(text, kw)
NameKeywords == {Keyword.ho, Keyword.ten}
IdKeywords == {Keyword.mssv, Keyword.ma_sv, Keyword.ma_sinh_vien}
ScoreKeywords == {Keyword.nrl, Keyword.diem}

Qualifies(t) ==
  /\ t.rows >= 2
  /\ HasAny(HeaderText(t), NameKeywords)
  /\ (HasAny(HeaderText(t), IdKeywords) \/ HasAny(HeaderText(t), ScoreKeywords))

TableScore(t) ==
  (IF HasAny(HeaderText(t), NameKeywords) THEN 3 ELSE 0)
    + (IF HasAny(HeaderText(t), IdKeywords) THEN 2 ELSE 0)
    + (IF HasAny(HeaderText(t), ScoreKeywords) THEN 2 ELSE 0)
    + (IF contains(HeaderText(t), Keyword.stt) THEN 1 ELSE 0)

\* C22: find_student_table returns the table with the highest score among the
\* tables of at least 2 rows whose header has a name keyword and an
\* identifier keyword (mssv, ma sv, ma sinh vien) or a score keyword, the
\* earliest one among ties, and no table when none qualifies.
C22_TableSelection ==
  fn = "find_student_table" =>
    LET Q == {k \in DOMAIN args : Qualifies(args[k])}
    IN  IF Q = {} THEN ret = 0
        ELSE /\ ret \in Q
             /\ \A j \in Q : \/ TableScore(args[j]) < TableScore(args[ret])
                             \/ TableScore(args[j]) = TableScore(args[ret]) /\ ret <= j

\* the roles a header text has by its keywords
RolesOf(cell) ==
  LET text == strip(lower(cell))
  IN  {r \in {"stt", "name", "student_id", "student_class", "score"} :
         CASE r = "stt" -> contains(text, Keyword.stt)
           [] r = "student_id" -> HasAny(text, IdKeywords)
           [] r = "name" -> contains(text, Keyword.ho) /\ contains(text, Keyword.ten)
           [] r = "student_class" -> HasAny(text, {Keyword.lop, Keyword.truong, Keyword.don_vi})
           [] r = "score" ->
                HasAny(text, ScoreKeywords \cup
                               {<<"r", "e_grave", "n", " ", "l", "u", "y", "e_circ_dot", "n">>})}

\* the header cells that have one role and are the only cell of that role; a
\* name header spelt without diacritics counts as a second name column
SoleCells(header) ==
  {k \in DOMAIN header :
     /\ Cardinality(RolesOf(header[k])) = 1
     /\ \A j \in DOMAIN header :
          j # k => /\ RolesOf(header[j]) \cap RolesOf(header[k]) = {}
                   /\ ~("name" \in RolesOf(header[k]) /\
                          HasAny(strip(lower(header[j])), {Keyword.ho_ten, Keyword.hoten}))}

\* C23: both column mappers give a header cell the ordinal role if it contains
\* "stt", the identifier role for "mssv", "ma sv" or "ma sinh vien", the name
\* role for both "ho" and "ten", the class role for "lop", "truong" or "don vi"
\* and the score role for "nrl", "diem" or "ren luyen", whatever the case.
C23_ColumnRoles ==
  /\ fn = "detect_column_indices" =>
       \A k \in SoleCells(args[1].header) :
         \A r \in RolesOf(args[1].header[k]) : ret[r] = k - 1
  /\ fn = "detect_columns" =>
       \A k \in SoleCells(args[1].header) :
         \A r \in RolesOf(args[1].header[k]) : r \in DOMAIN ret /\ ret[r] = args[1].header[k]

\* -------------------------------------- claims on the missing identifier
IdMissing(cell) == isna(cell) \/ (cell.t = "str" /\ cell.s = <<>>)

\* the digits of a cell that holds a number or the text of one
NumberText(cell) ==
  IF cell.t = "float" THEN SubSeq(cell.s, 1, Len(cell.s) - 2) ELSE strip(cell.s)

IdShaped(cell) ==
  /\ cell.t \in {"str", "int", "float"}
  /\ isdigit(NumberText(cell))
  /\ Len(NumberText(cell)) >= 8

\* C24: a row of parse_xlsx_file or parse_worksheet whose identifier cell is
\* missing (empty, None or NaN) and whose class cell holds an identifier-shaped
\* value, text or number, is emitted with that value as student_id and
\* UNKNOWN_CLASS as student_class.
C24_MissingIdPromotion ==
  (RowParsed /\ SheetParser /\ IdMissing(cells.student_id) /\ IdShaped(cells.student_class)) =>
    /\ row_out.value # <<>>
    /\ row_out.value[1].student_id = NumberText(cells.student_class)
    /\ row_out.value[1].student_class = UNKNOWN_CLASS

\* ------------------------------------------ claims on the merge's frame
\* old_data after the call: its keys with the objects they refer to
OldAfter == [sid \in DOMAIN old0 |-> objs[store[sid]]]
NewAfter == Deref(new_data, objs)

\* C25: merge_student_data leaves both inputs unchanged: after the call every
\* profile of old_data and of new_data has the info, stats and history it had
\* before the call, a call that follows an earlier merge included.
C25_InputsUnchanged == AfterMerge => (OldAfter = old0 /\ NewAfter = new0)

\* ------------------------------------- claims on the activity reference
\* two references of a scan that resolve to different sheets or documents
DifferentActivity(a, b) ==
  /\ a.link_type = b.link_type
  /\ IF a.link_type = "internal" THEN a.sheet_name # b.sheet_name ELSE a.url # b.url

\* C26: two references of one scan that resolve to different sheets or to
\* different remote documents never carry the same url, the url being the
\* activity_link by which the merge tells activities apart.
C26_UrlPerActivity ==
  (Scanned /\ ~ret.raised) =>
    \A i, j \in DOMAIN ret.value :
      DifferentActivity(ret.value[i], ret.value[j]) => ret.value[i].url # ret.value[j].url

\* C27: for every workbook that has a link column, whatever the year token of
\* its file name, extract_links returns a list of references and raises no error.
C27_ScanNeverRaises ==
  (Scanned /\ find_link_column(args[1].headers) # 0) => ~ret.raised

\* ------------------------------------------ claims on conservation
CountOf == [sid \in DOMAIN agg[1] |-> agg[1][sid].stats.activity_count]

\* the k-th row of df, in DataFrame order, that has the student_id sid
KthRow(sid, k) ==
  CHOOSE i \in RowsOf(sid) : Cardinality({j \in RowsOf(sid) : j <= i}) = k

\* C28: the activity_count values of the profiles aggregate_by_student returns
\* add up to the number of input entries, and every input entry appears once,
\* in the history of the profile keyed by its student_id and in no other.
C28_EntriesConserved ==
  agg # NotCalled =>
    /\ SumOver(DOMAIN agg[1], CountOf) = Len(df)
    /\ \A i \in DOMAIN df : df[i].student_id \in DOMAIN agg[1]
    /\ \A sid \in DOMAIN agg[1] :
         /\ Len(agg[1][sid].history) = Cardinality(RowsOf(sid))
         /\ \A k \in DOMAIN agg[1][sid].history :
              LET h == agg[1][sid].history[k]
                  e == df[KthRow(sid, k)]
              IN  /\ h.stt = e.stt
                  /\ h.activity_name = e.activity_name
                  /\ h.score = e.score
                  /\ h.activity_link = e.activity_link

C28_Witness ==
  /\ agg # NotCalled
  /\ Len(df) = 2
  /\ df[1] = df[2]
  /\ Len(agg[1][df[1].student_id].history) = 2

\* ------------------------------------- claims on the swap applied twice
\* the implementation that was called, applied to the pair it returned
SwapAgain ==
  IF fn = "parser.smart_swap_id_class"
  THEN parser_smart_swap_id_class(ret[1], ret[2])
  ELSE sheet_smart_swap_id_class(Str(ret[1]), Str(ret[2]))

\* C29: smart_swap_id_class applied to its own output returns that output, and
\* the pair it returns holds the two trimmed input values, as they came or
\* exchanged.
C29_SwapIdempotent ==
  SwapCalled =>
    /\ SwapAgain = ret
    /\ ret \in {<<strip(args[1]), strip(args[2])>>, <<strip(args[2]), strip(args[1])>>}

C29_Witness ==
  /\ fn = "parser.smart_swap_id_class"
  /\ args = <<<<"2", "2", "D", "H", "T", "T", "0", "2">>,
              <<"2", "2", "5", "4", "8", "1", "0", "3", "1", "5">>>>
  /\ ret = <<args[2], args[1]>>
  /\ SwapAgain = ret

\* ------------------------------------- claims on sentinels in a table
\* C30: within one parsed table the rows that lack an identifier get pairwise
\* different sentinel student_ids.
C30_DistinctSentinels ==
  fn \in {"parse_student_table", "parse_worksheet"} =>
    \A i, j \in DOMAIN ret :
      (i # j /\ IsSentinelId(ret[i].student_id) /\ IsSentinelId(ret[j].student_id)) =>
        ret[i].student_id # ret[j].student_id

====
